---- MODULE Spec2Model ----
(***************************************************************************)
(* The suggestion reconciliation engine of src/utils/data-access.js:       *)
(* syncSuggestions and its helpers, over an abstract persistent store of   *)
(* suggestions.  The store holds what save(), bulkUpdateStatus() and       *)
(* addSuggestions() persisted; a call that rejects leaves the store with   *)
(* the writes that were persisted before the rejection.                    *)
(***************************************************************************)
EXTENDS Integers, Sequences, FiniteSets, TLC

(***************************************************************************)
(* Bounds of the model.                                                    *)
(***************************************************************************)
\* number of audit runs in one behaviour
MaxRuns == 2

\* the keys (pages) an audit reports findings for
Keys == {1, 2}

(***************************************************************************)
(* Suggestion statuses (SuggestionDataAccess.STATUSES).                    *)
(***************************************************************************)
\* NEW is a reserved word of TLA+
STATUS_NEW == "NEW"
APPROVED == "APPROVED"
IN_PROGRESS == "IN_PROGRESS"
SKIPPED == "SKIPPED"
FIXED == "FIXED"
ERROR == "ERROR"
OUTDATED == "OUTDATED"
PENDING_VALIDATION == "PENDING_VALIDATION"
REJECTED == "REJECTED"

STATUSES ==
  {STATUS_NEW, APPROVED, IN_PROGRESS, SKIPPED, FIXED, ERROR, OUTDATED,
   PENDING_VALIDATION, REJECTED}

\* the value a callback returns, or a field holds, when there is none
null == "null"

(***************************************************************************)
(* Data payloads: functions from a set of field names to values.  A        *)
(* finding carries key, url and title; a stored suggestion may also carry  *)
(* tokowakaDeployed / edgeDeployed (a timestamp, 0 when falsy).            *)
(***************************************************************************)
Url(k) == "https://example.com/page" \o ToString(k)

\* { ...a, ...b }: the fields of b, and the fields of a that b lacks
Spread(a, b) == b @@ a

\* JavaScript truthiness of data?.[f] for a numeric field (a timestamp) and
\* for a string field: the field is there and is not 0, not the empty string
TruthyNumber(data, f) == f \in DOMAIN data /\ data[f] # 0

TruthyString(data, f) == f \in DOMAIN data /\ data[f] # ""

\* the finding an audit reports for page k
Finding(k) == [key |-> k, url |-> Url(k), title |-> "new title"]

\* buildKey = (data) => `${data.key}`
buildKey(data) == ToString(data.key)

(***************************************************************************)
(* Merge policies.                                                         *)
(***************************************************************************)
keepSameDataFunction(existingData, newData) == Spread(<<>>, existingData)

keepLatestMergeDataFunction(existingData, newData) == Spread(<<>>, newData)

\* mutant: the existing fields win over the new ones
defaultMergeDataFunction_existingWins(existingData, newData) ==
  Spread(newData, existingData)

defaultMergeDataFunction(existingData, newData) ==
  Spread(existingData, newData)

mergeDataFunction(name, existingData, newData) ==
  CASE name = "keepSame" -> keepSameDataFunction(existingData, newData)
    [] name = "keepLatest" -> keepLatestMergeDataFunction(existingData, newData)
    [] OTHER -> defaultMergeDataFunction(existingData, newData)

\* mutant: an OUTDATED suggestion found again keeps its status
defaultMergeStatusFunction_keepOutdated(currentStatus, requiresValidation) ==
  null

\* mutant: the regression status ignores the site's validation policy
defaultMergeStatusFunction_alwaysNew(currentStatus, requiresValidation) ==
  IF currentStatus = OUTDATED THEN STATUS_NEW ELSE null

defaultMergeStatusFunction(currentStatus, requiresValidation) ==
  IF currentStatus = REJECTED THEN null
  ELSE IF currentStatus = OUTDATED
       THEN (IF requiresValidation THEN PENDING_VALIDATION ELSE STATUS_NEW)
       ELSE null

(***************************************************************************)
(* mapNewSuggestion strategies of the callers: the guidance handler stores *)
(* the whole finding, the test suite's mapper stores the key only; a       *)
(* mapper may also set a status of its own.                                *)
(***************************************************************************)
mapNewSuggestion(name, data) ==
  IF name = "keyOnly" THEN [data |-> [key |-> data.key]]
  ELSE IF name = "withStatus" THEN [data |-> data, status |-> APPROVED]
  ELSE [data |-> data]

(***************************************************************************)
(* The store: a sequence of suggestion entities, a suggestion's id being   *)
(* its position.  bulkUpdateStatus, save and addSuggestions are the        *)
(* store's operations as the engine calls them.                            *)
(***************************************************************************)
Range(s) == {s[i] : i \in DOMAIN s}

\* mutant: the suggestions are deleted instead of given the status
bulkUpdateStatus_removes(store, ids, status) ==
  LET kept == SelectSeq([i \in 1..Len(store) |-> i], LAMBDA i : i \notin ids)
  IN  [j \in DOMAIN kept |-> store[kept[j]]]

bulkUpdateStatus(store, ids, status) ==
  [i \in DOMAIN store |->
     IF i \in ids THEN [store[i] EXCEPT !.status = status] ELSE store[i]]

\* save() of the entities in ids: their in-memory state becomes the stored
\* one, the save of every other entity having been rejected or not called
save(store, entities, ids) ==
  [i \in DOMAIN store |-> IF i \in ids THEN entities[i] ELSE store[i]]

\* the positions of seq, in order
Indices(seq) == [i \in 1..Len(seq) |-> i]

(***************************************************************************)
(* handleOutdatedSuggestions: the suggestions it passes to                 *)
(* bulkUpdateStatus.                                                       *)
(***************************************************************************)
newDataKeys(newData) == {buildKey(newData[i]) : i \in DOMAIN newData}

\* mutant: REJECTED is missing from the list of preserved statuses
PreservedStatuses_noRejected ==
  {OUTDATED, FIXED, ERROR, SKIPPED, APPROVED, IN_PROGRESS, PENDING_VALIDATION}

\* mutant: a FIXED suggestion may be outdated
PreservedStatuses_noFixed ==
  {OUTDATED, ERROR, SKIPPED, REJECTED, APPROVED, IN_PROGRESS,
   PENDING_VALIDATION}

\* mutant: only the terminal statuses are preserved
PreservedStatuses_terminalOnly == {OUTDATED, FIXED, ERROR, SKIPPED, REJECTED}

PreservedStatuses ==
  {OUTDATED, FIXED, ERROR, SKIPPED, REJECTED, APPROVED, IN_PROGRESS,
   PENDING_VALIDATION}

\* mutant: only tokowakaDeployed protects a suggestion
isDeployed_tokowakaOnly(data) == TruthyNumber(data, "tokowakaDeployed")

isDeployed(data) ==
  TruthyNumber(data, "tokowakaDeployed") \/ TruthyNumber(data, "edgeDeployed")

\* mutant: a suggestion without url passes the scraped filter
wasScraped_missingUrlPasses(data, scrapedUrlsSet) ==
  IF scrapedUrlsSet.given
  THEN ~TruthyString(data, "url") \/ data.url \in scrapedUrlsSet.urls
  ELSE TRUE

wasScraped(data, scrapedUrlsSet) ==
  IF scrapedUrlsSet.given
  THEN TruthyString(data, "url") /\ data.url \in scrapedUrlsSet.urls
  ELSE TRUE

existingOutdatedSuggestions(existingSuggestions, keys, scrapedUrlsSet) ==
  {i \in DOMAIN existingSuggestions :
     /\ buildKey(existingSuggestions[i].data) \notin keys
     /\ existingSuggestions[i].status \notin PreservedStatuses
     /\ ~isDeployed(existingSuggestions[i].data)
     /\ wasScraped(existingSuggestions[i].data, scrapedUrlsSet)}

(***************************************************************************)
(* Log lines of syncSuggestions and handleOutdatedSuggestions at info,     *)
(* warn and error level, in the order they are written.                    *)
(***************************************************************************)
Line(level, msg, n, m, text) ==
  [level |-> level, msg |-> msg, n |-> n, m |-> m, text |-> text]

\* errorItems.slice(0, 5)
MaxErrorsLogged == 5

Min(a, b) == IF a < b THEN a ELSE b

errorLines(errorItems) ==
  LET shown == Min(Len(errorItems), MaxErrorsLogged)
  IN  [j \in 1..shown |->
         Line("error", "Error j/n", j, Len(errorItems), errorItems[j].error)]
      \o (IF Len(errorItems) > MaxErrorsLogged
          THEN <<Line("error", "... and n more errors",
                      Len(errorItems) - MaxErrorsLogged, 0, "")>>
          ELSE <<>>)

(***************************************************************************)
(* syncSuggestions.  cfg holds the caller's strategies and the site        *)
(* policy; in holds the arguments of this call and what the store answers  *)
(* to it: saveFails, the ids whose save() rejects, and addResult, for each *)
(* submitted suggestion null when it is created and else the error text of *)
(* its error item ("" when the item has no error text).  The result is the *)
(* store after the call and what the caller and the logger observe.        *)
(***************************************************************************)
\* mutant: the lookup map holds the first finding of a key
newDataByKey_first(newData, k) ==
  newData[CHOOSE i \in DOMAIN newData :
            /\ buildKey(newData[i]) = k
            /\ \A j \in DOMAIN newData : buildKey(newData[j]) = k => i <= j]

\* the finding the lookup map holds for a key: the last one in newData
newDataByKey(newData, k) ==
  newData[CHOOSE i \in DOMAIN newData :
            /\ buildKey(newData[i]) = k
            /\ \A j \in DOMAIN newData : buildKey(newData[j]) = k => j <= i]

existingSuggestionKeys(existingSuggestions) ==
  {buildKey(existingSuggestions[i].data) : i \in DOMAIN existingSuggestions}

\* the in-memory entity after setData, setStatus and setUpdatedBy
updatedEntity(existing, newDataItem, cfg) ==
  LET newStatus ==
        defaultMergeStatusFunction(existing.status, cfg.requiresValidation)
  IN  [data |-> mergeDataFunction(cfg.mergeData, existing.data, newDataItem),
       status |-> IF newStatus # null THEN newStatus ELSE existing.status,
       updatedBy |-> "system"]

\* mutant: every new suggestion starts as NEW
initialStatus_alwaysNew(requiresValidation) == STATUS_NEW

initialStatus(requiresValidation) ==
  IF requiresValidation THEN PENDING_VALIDATION ELSE STATUS_NEW

\* mutant: a finding is submitted when it is not in the new key set
isUnmatched_always(data, existingKeys) == TRUE

isUnmatched(data, existingKeys) == buildKey(data) \notin existingKeys

\* mutant: a status set by the mapper is kept
withInitialStatus_keepMapped(suggestion, requiresValidation) ==
  [data |-> suggestion.data,
   status |-> IF "status" \in DOMAIN suggestion THEN suggestion.status
              ELSE initialStatus(requiresValidation),
   updatedBy |-> null]

\* { ...suggestion, status: requiresValidation ? PENDING_VALIDATION : NEW }
withInitialStatus(suggestion, requiresValidation) ==
  [data |-> suggestion.data,
   status |-> initialStatus(requiresValidation),
   updatedBy |-> null]

newSuggestions(newData, existingKeys, cfg) ==
  LET idx == SelectSeq(Indices(newData),
                       LAMBDA i : isUnmatched(newData[i], existingKeys))
  IN  [j \in DOMAIN idx |->
         withInitialStatus(mapNewSuggestion(cfg.mapNew, newData[idx[j]]),
                           cfg.requiresValidation)]

\* opportunity.addSuggestions: the created and the errored items
createdItems(submitted, addResult) ==
  LET idx == Indices(submitted)
      ok == SelectSeq(idx, LAMBDA j : addResult[j] = null)
  IN  [j \in DOMAIN ok |-> submitted[ok[j]]]

errorItems(submitted, addResult) ==
  LET idx == Indices(submitted)
      ko == SelectSeq(idx, LAMBDA j : addResult[j] # null)
  IN  [j \in DOMAIN ko |-> [item |-> submitted[ko[j]], error |-> addResult[ko[j]]]]

NoError == [message |-> "", siteId |-> "", sampleError |-> ""]

\* the rejection of opportunity.getSuggestions()
GetError == [message |-> "getSuggestions rejected", siteId |-> "", sampleError |-> ""]

\* the rejection of Suggestion.bulkUpdateStatus()
BulkError ==
  [message |-> "bulkUpdateStatus rejected", siteId |-> "", sampleError |-> ""]

\* the rejection of Promise.all when a save() rejects
SaveError == [message |-> "save rejected", siteId |-> "", sampleError |-> ""]

\* opportunity.getSiteId?.() || 'unknown'
siteIdOf(siteId) == IF siteId = null THEN "unknown" ELSE siteId

\* errorItems[0]?.error || 'Unknown error'
sampleErrorOf(errors) ==
  IF errors[1].error = "" THEN "Unknown error" ELSE errors[1].error

CreateError(siteId, errors) ==
  [message |-> "Failed to create suggestions for siteId",
   siteId |-> siteIdOf(siteId), sampleError |-> sampleErrorOf(errors)]

\* mutant: the call fails whenever the batch create reports an error
allFailed_anyError(created, errors) == Len(errors) > 0

\* mutant: the call never fails on creation errors
allFailed_never(created, errors) == FALSE

\* suggestions.errorItems?.length > 0 and suggestions.createdItems?.length <= 0
allFailed(created, errors) == Len(errors) > 0 /\ Len(created) <= 0

regressionLines(existingSuggestions, matched) ==
  LET idx == Indices(existingSuggestions)
      hit == SelectSeq(idx, LAMBDA i :
               i \in matched /\ existingSuggestions[i].status = OUTDATED)
  IN  [j \in DOMAIN hit |->
         Line("warn", "Outdated suggestion found in audit. Possible regression.",
              hit[j], 0, "")]

createLines(submitted, created, errors) ==
  <<Line("info", "Adding n new suggestions", Len(submitted), 0, "")>>
  \o (IF Len(errors) > 0
      THEN <<Line("error", "contains n items with errors out of m total",
                  Len(errors), Len(submitted), "")>>
           \o errorLines(errors)
           \o (IF allFailed(created, errors)
               THEN <<Line("error", "[suggestions.errorItems]",
                           Len(errors), 0, "")>>
               ELSE <<Line("warn", "Partial success: Created n suggestions, m failed",
                           Len(created), Len(errors), "")>>)
      ELSE <<>>)

\* A call made with a context (without one the function returns at once)
\* on the suggestion objects existingSuggestions, fetched by getSuggestions
\* or handed over by the caller, store being what the store holds.  The
\* saves of the matched suggestions are started together: those that do not
\* reject are persisted even when one rejects.
\* mutant: bulkUpdateStatus is called whatever the list holds
callsBulkUpdateStatus_always(outdated) == TRUE

\* if (isNonEmptyArray(existingOutdatedSuggestions))
callsBulkUpdateStatus(outdated) == outdated # {}

syncSuggestionsOn(store, existingSuggestions, in, cfg) ==
  LET keys == newDataKeys(in.newData)
      existingKeys == existingSuggestionKeys(existingSuggestions)
      \* handleOutdatedSuggestions
      outdated ==
        existingOutdatedSuggestions(existingSuggestions, keys, in.scrapedUrlsSet)
      bulkCalls == IF callsBulkUpdateStatus(outdated) THEN 1 ELSE 0
      afterOutdated ==
        IF callsBulkUpdateStatus(outdated)
        THEN bulkUpdateStatus(store, outdated, cfg.statusToSetForOutdated)
        ELSE store
      \* update of the matched suggestions
      matched == {i \in DOMAIN existingSuggestions :
                    buildKey(existingSuggestions[i].data) \in keys}
      updated ==
        [i \in DOMAIN existingSuggestions |->
           IF i \in matched
           THEN updatedEntity(existingSuggestions[i],
                  newDataByKey(in.newData, buildKey(existingSuggestions[i].data)),
                  cfg)
           ELSE afterOutdated[i]]
      afterUpdate == save(afterOutdated, updated, matched \ in.saveFails)
      \* the calls of save(), in the order of existingSuggestions
      saves == SelectSeq(Indices(existingSuggestions),
                         LAMBDA i : i \in matched)
      \* creation of the unmatched findings
      submitted == newSuggestions(in.newData, existingKeys, cfg)
      created == createdItems(submitted, in.addResult)
      errors == errorItems(submitted, in.addResult)
      head == <<Line("info", "Final count of suggestions to mark", Cardinality(outdated), 0,
                     cfg.statusToSetForOutdated)>>
              \o regressionLines(existingSuggestions, matched)
      none == [store |-> store, outcome |-> "rejected", error |-> GetError,
               log |-> <<>>, bulk |-> {}, bulkCalls |-> 0, saveCalled |-> {},
               saves |-> <<>>,
               submitted |-> <<>>, created |-> 0, failed |-> 0]
  IN  IF in.getFails
      THEN none
      ELSE IF callsBulkUpdateStatus(outdated) /\ in.bulkFails
      THEN [none EXCEPT !.error = BulkError, !.log = <<head[1]>>,
                        !.bulk = outdated, !.bulkCalls = bulkCalls]
      ELSE IF matched \cap in.saveFails # {}
      THEN [none EXCEPT !.store = afterUpdate, !.error = SaveError,
                        !.log = head, !.bulk = outdated,
                        !.saveCalled = matched, !.saves = saves,
                        !.bulkCalls = bulkCalls]
      ELSE IF Len(submitted) = 0
      THEN [none EXCEPT !.store = afterUpdate, !.outcome = "resolved",
                        !.error = NoError, !.log = head, !.bulk = outdated,
                        !.saveCalled = matched, !.saves = saves,
                        !.bulkCalls = bulkCalls]
      ELSE [store |-> afterUpdate \o created,
            outcome |-> IF allFailed(created, errors) THEN "rejected" ELSE "resolved",
            error |-> IF allFailed(created, errors)
                      THEN CreateError(in.siteId, errors) ELSE NoError,
            log |-> head \o createLines(submitted, created, errors),
            bulk |-> outdated, bulkCalls |-> bulkCalls,
            saveCalled |-> matched, saves |-> saves,
            submitted |-> submitted,
            created |-> Len(created), failed |-> Len(errors)]

\* a call without pre-fetched suggestions: the suggestion objects are those
\* getSuggestions returns, in their stored state
syncSuggestions(store, in, cfg) == syncSuggestionsOn(store, store, in, cfg)

\* the parameter existingSuggestions: null by default, or the suggestion
\* objects the caller has fetched
Prefetched(given, list) ==
  [given |-> given, list |-> IF given THEN list ELSE <<>>]

\* mutant: the suggestions are fetched whether or not they were handed over
getSuggestionsCalls_always(prefetchedSuggestions) == 1

\* prefetchedSuggestions ?? await opportunity.getSuggestions(): the number
\* of calls of getSuggestions
getSuggestionsCalls(prefetchedSuggestions) ==
  IF prefetchedSuggestions.given THEN 0 ELSE 1

\* prefetchedSuggestions ?? await opportunity.getSuggestions(): the
\* suggestion objects the call works on
existingSuggestionsOf(prefetchedSuggestions, store) ==
  IF getSuggestionsCalls(prefetchedSuggestions) = 0
  THEN prefetchedSuggestions.list
  ELSE store

\* a call of syncSuggestions with or without context and with or without
\* pre-fetched suggestions: what it did and how often it called getSuggestions
syncSuggestionsCall(context, store, prefetchedSuggestions, in, cfg) ==
  IF ~context
  THEN [fetches |-> 0,
        res |-> [store |-> store, outcome |-> "resolved", error |-> NoError,
                 log |-> <<>>, bulk |-> {}, bulkCalls |-> 0, saveCalled |-> {},
                 saves |-> <<>>,
                 submitted |-> <<>>, created |-> 0, failed |-> 0]]
  ELSE [fetches |-> getSuggestionsCalls(prefetchedSuggestions),
        res |-> syncSuggestionsOn(
                  store, existingSuggestionsOf(prefetchedSuggestions, store),
                  [in EXCEPT !.getFails =
                     @ /\ getSuggestionsCalls(prefetchedSuggestions) > 0],
                  cfg)]

(***************************************************************************)
(* State.                                                                  *)
(***************************************************************************)
VARIABLES
  suggestions,  \* the stored suggestions of the opportunity
  cfg,          \* the strategies of the calling audit and the site policy
  call,         \* the call of the current run: arguments, store before, result
  runs,         \* number of audit runs started
  entities,     \* the suggestion objects a call holds in memory
  fixEntities,  \* the stored fix entities of the opportunity
  rec,          \* the frame of reconcileDisappearedSuggestions
  pub,          \* the frame of publishDeployedFixEntities
  wr,           \* the frame of syncSuggestionsWithPublishDetection
  calls         \* the frames of overlapping calls of syncSuggestions

vars ==
  <<suggestions, cfg, call, runs, entities, fixEntities, rec, pub, wr, calls>>

\* no overlapping calls of syncSuggestions are in progress
NoCalls == [pc |-> "none"]

\* no call of publishDeployedFixEntities is in progress
NoPublish == [pc |-> "idle"]

\* no call of syncSuggestionsWithPublishDetection is in progress
NoWrapper == [pc |-> "idle"]

\* no call of reconcileDisappearedSuggestions is in progress
NoReconcile == [pc |-> "idle"]

Urls == {Url(k) : k \in Keys}

\* scrapedUrlsSet = null, or a set of scraped urls
NoScrapedUrlsSet == [given |-> FALSE, urls |-> {}]

ScrapedUrlsSets ==
  {NoScrapedUrlsSet}
  \cup {[given |-> TRUE, urls |-> u] : u \in {{}, {Url(1)}, Urls}}

\* the data of a suggestion stored before the first call: with its url and
\* possibly a deployment timestamp, or without url
ExistingData(k) ==
  {d @@ [key |-> k, url |-> Url(k), title |-> "old title"] :
     d \in {<<>>, [tokowakaDeployed |-> 1], [edgeDeployed |-> 1]}}
  \cup {[key |-> k, title |-> "old title"]}

ExistingSuggestions(k) ==
  [data : ExistingData(k), status : STATUSES, updatedBy : {"user"}]

InitialStores ==
  {<<>>} \cup {<<s>> : s \in ExistingSuggestions(1)}

\* every pair of data strategies with the default outdated status, and the
\* default strategies with statusToSetForOutdated = FIXED
Configurations ==
  {c \in [requiresValidation : BOOLEAN,
          mergeData : {"default", "keepSame", "keepLatest"},
          mapNew : {"whole", "keyOnly", "withStatus"},
          statusToSetForOutdated : {OUTDATED, FIXED}] :
     /\ c.statusToSetForOutdated = FIXED =>
          c.mergeData = "default" /\ c.mapNew = "whole"
     /\ c.mapNew = "withStatus" => c.mergeData = "default"}

\* the findings of the pages ks, in page order
RECURSIVE Batch(_)
Batch(ks) ==
  IF ks = {} THEN <<>>
  ELSE LET k == CHOOSE x \in ks : \A y \in ks : x <= y
       IN  <<Finding(k)>> \o Batch(ks \ {k})

\* the batches of findings an audit run may report: pairwise distinct keys
Batches == {Batch(ks) : ks \in SUBSET Keys}

\* what an audit reports first for page k when it reports the page twice
EarlierFinding(k) == [Finding(k) EXCEPT !.title = "earlier title"]

\* the keys are unique within the batch of findings
UniqueKeys(newData) ==
  \A i, j \in DOMAIN newData :
    buildKey(newData[i]) = buildKey(newData[j]) => i = j

\* the keys are unique within the stored suggestions
UniqueStoredKeys(store) ==
  \A i, j \in DOMAIN store :
    buildKey(store[i].data) = buildKey(store[j].data) => i = j

\* a batch in which two findings share the key
RepeatedBatches == {<<EarlierFinding(1), Finding(1)>>}

ErrorTexts == {"some error", ""}

\* what addSuggestions may answer for n submitted suggestions
AddResults(n) == [1..n -> {null} \cup ErrorTexts]

NoCall == [op |-> "none"]

Init ==
  /\ suggestions \in InitialStores
  /\ cfg \in Configurations
  /\ call = NoCall
  /\ runs = 0
  /\ entities = <<>>
  /\ fixEntities = <<>>
  /\ rec = NoReconcile
  /\ pub = NoPublish
  /\ wr = NoWrapper
  /\ calls = NoCalls

(***************************************************************************)
(* What the store may answer to one call: getSuggestions rejects or not,   *)
(* bulkUpdateStatus rejects or not, the saves that reject, the outcome of  *)
(* each submitted suggestion.  The answers to operations the call never    *)
(* reaches are left at their default.                                      *)
(***************************************************************************)
Answers(store, newData, scrapedUrlsSet, c) ==
  LET keys == newDataKeys(newData)
      matched == {i \in DOMAIN store : buildKey(store[i].data) \in keys}
      outdated == existingOutdatedSuggestions(store, keys, scrapedUrlsSet)
      n == Len(newSuggestions(newData, existingSuggestionKeys(store), c))
      quiet == [getFails |-> FALSE, bulkFails |-> FALSE, saveFails |-> {},
                addResult |-> <<>>, siteId |-> "site-id"]
  IN  {[quiet EXCEPT !.getFails = TRUE]}
      \cup (IF outdated # {} THEN {[quiet EXCEPT !.bulkFails = TRUE]} ELSE {})
      \cup {[quiet EXCEPT !.saveFails = f] : f \in (SUBSET matched) \ {{}}}
      \cup {[quiet EXCEPT !.addResult = r] : r \in AddResults(n)}
      \cup {[quiet EXCEPT !.addResult = r, !.siteId = null] :
              r \in {x \in AddResults(n) : x # <<>> /\ null \notin Range(x)}}

(***************************************************************************)
(* One call of syncSuggestions.  An audit run calls it with any batch of   *)
(* findings; a run that has called it may call it once again with the same *)
(* arguments.                                                              *)
(***************************************************************************)
SyncSuggestions ==
  /\ \/ call.op = "none" /\ runs < MaxRuns
     \/ call.op = "syncSuggestions" /\ ~call.again
  /\ \E newData \in Batches \cup RepeatedBatches,
        scrapedUrlsSet \in ScrapedUrlsSets :
       /\ call.op = "syncSuggestions" =>
            /\ newData = call.in.newData
            /\ scrapedUrlsSet = call.in.scrapedUrlsSet
       /\ \E a \in Answers(suggestions, newData, scrapedUrlsSet, cfg) :
            LET in == [newData |-> newData,
                       scrapedUrlsSet |-> scrapedUrlsSet,
                       getFails |-> a.getFails,
                       bulkFails |-> a.bulkFails,
                       saveFails |-> a.saveFails,
                       addResult |-> a.addResult,
                       siteId |-> a.siteId]
                r == syncSuggestions(suggestions, in, cfg)
            IN  /\ suggestions' = r.store
                /\ call' = [op |-> "syncSuggestions",
                            again |-> call.op # "none",
                            in |-> in, pre |-> suggestions, res |-> r,
                            first |-> IF call.op = "none" THEN suggestions
                                      ELSE call.pre,
                            prev |-> IF call.op = "none"
                                     THEN [outcome |-> "none", failed |-> 0,
                                           changed |-> FALSE]
                                     ELSE [outcome |-> call.res.outcome,
                                           failed |-> call.res.failed,
                                           changed |-> suggestions # call.pre]]
                /\ runs' = IF call.op = "none" THEN runs + 1 ELSE runs
                /\ UNCHANGED <<cfg, entities, fixEntities, rec, pub, wr, calls>>

\* the audit handler returns: the run is over
EndRun ==
  /\ call.op # "none"
  /\ call' = NoCall
  /\ UNCHANGED <<suggestions, cfg, runs, entities, fixEntities, rec, pub, wr, calls>>

Next == SyncSuggestions \/ EndRun

Spec == Init /\ [][Next]_vars

(***************************************************************************)
(* The bounded concurrency executor, limitConcurrencyAllSettled of         *)
(* support/utils.js, after its contract: the tasks of an ordered list are  *)
(* run with at most `limit` of them in flight, and the result holds, at    *)
(* each task's position, its resolved value or a failure marker.  A pool   *)
(* records for each task its state, how often it was started and the       *)
(* value it resolved with.                                                 *)
(***************************************************************************)
\* mutant: one more check may be in flight
MAX_CONCURRENT_CHECKS_six == 5 + 1

MAX_CONCURRENT_CHECKS == 5

\* what the executor returns in the place of a task that rejected
FailureMarker == null

NewPool(n) ==
  [state |-> [j \in 1..n |-> "pending"],
   starts |-> [j \in 1..n |-> 0],
   value |-> [j \in 1..n |-> null]]

InFlight(pool) == {j \in DOMAIN pool.state : pool.state[j] = "running"}

\* the tasks the executor may start now
Startable(pool, limit) ==
  IF Cardinality(InFlight(pool)) < limit
  THEN {j \in DOMAIN pool.state : pool.state[j] = "pending"}
  ELSE {}

startTask(pool, j) ==
  [pool EXCEPT !.state[j] = "running", !.starts[j] = @ + 1]

\* task j resolves with value v, or rejects (v = null)
settleTask(pool, j, v) ==
  [pool EXCEPT !.state[j] = IF v = null THEN "rejected" ELSE "fulfilled",
               !.value[j] = v]

allSettled(pool) ==
  \A j \in DOMAIN pool.state : pool.state[j] \in {"fulfilled", "rejected"}

\* mutant: the results are returned in reverse order
limitConcurrencyAllSettled_misplaced(pool) ==
  [j \in DOMAIN pool.state |->
     LET k == Len(pool.state) + 1 - j
     IN  IF pool.state[k] = "fulfilled" THEN pool.value[k] ELSE null]

\* the sequence the executor resolves with
limitConcurrencyAllSettled(pool) ==
  [j \in DOMAIN pool.state |->
     IF pool.state[j] = "fulfilled" THEN pool.value[j] ELSE FailureMarker]

(***************************************************************************)
(* reconcileDisappearedSuggestions.  The frame rec holds the arguments of  *)
(* the call, the position of the call in its code (pc), the pool of the    *)
(* checks, the loop over the fixed suggestions and what the call did:      *)
(* the suggestions isIssueFixedWithAISuggestion was invoked for, the       *)
(* suggestions whose status was set and which were saved, the calls of     *)
(* buildFixEntityPayload and of opportunity.addFixEntities, the log.       *)
(* answers holds what the predicate answered for each candidate.           *)
(***************************************************************************)
DEPLOYED == "DEPLOYED"
PUBLISHED == "PUBLISHED"

\* mutant: every disappeared suggestion is a candidate
candidates_anyStatus(disappearedSuggestions, ents) == disappearedSuggestions

\* the disappeared suggestions in NEW status
candidates(disappearedSuggestions, ents) ==
  SelectSeq(disappearedSuggestions, LAMBDA id : ents[id].status = STATUS_NEW)

\* mutant: a check that did not resolve false counts as fixed
fixedSuggestions_unlessFalse(cands, checkResults) ==
  LET hit == SelectSeq(Indices(cands), LAMBDA j : checkResults[j] # "false")
  IN  [j \in DOMAIN hit |-> cands[hit[j]]]

\* checkResults.filter((r) => r?.isFixed).map((r) => r.suggestion)
fixedSuggestions(cands, checkResults) ==
  LET hit == SelectSeq(Indices(cands), LAMBDA j : checkResults[j] = "true")
  IN  [j \in DOMAIN hit |-> cands[hit[j]]]

\* the payload the caller's builder returns for a fixed suggestion
buildFixEntityPayload(suggestion, opportunity, isAuthorOnly) ==
  [opportunityId |-> opportunity,
   status |-> IF isAuthorOnly THEN DEPLOYED ELSE PUBLISHED,
   suggestions |-> <<suggestion>>]

\* opportunity.addFixEntities: the fix entities made of the payloads
addFixEntities(store, fixEntityObjects) ==
  store \o [j \in DOMAIN fixEntityObjects |->
              [status |-> fixEntityObjects[j].status,
               suggestionIds |-> fixEntityObjects[j].suggestions]]

\* the frame of a call that has just computed its candidates
reconcileFrame(args, ents) ==
  LET cands == candidates(args.disappearedSuggestions, ents)
  IN  [pc |-> IF Len(cands) = 0 THEN "done" ELSE "checking",
       args |-> args,
       candidates |-> cands,
       outcome |-> IF Len(cands) = 0 THEN "resolved" ELSE "pending",
       pre |-> ents,
       pool |-> NewPool(Len(cands)),
       invoked |-> {},
       answers |-> [j \in DOMAIN cands |-> "none"],
       checkResults |-> <<>>,
       fixed |-> <<>>,
       i |-> 1,
       statusSet |-> {},
       saveCalled |-> {},
       saved |-> {},
       built |-> <<>>,
       fixEntityObjects |-> <<>>,
       addCalls |-> <<>>,
       unexpected |-> FALSE,
       log |-> <<>>]

\* mutant: an exception outside the inner try blocks rejects the call
onUnexpected_throws(frame) ==
  [frame EXCEPT !.pc = "done", !.outcome = "rejected", !.unexpected = TRUE,
                !.candidates = <<>>, !.pool = NewPool(0), !.answers = <<>>]

\* the outer catch (e): the exception is logged and the call resolves
onUnexpected(frame) ==
  [frame EXCEPT
     !.pc = "done", !.outcome = "resolved", !.unexpected = TRUE,
     !.candidates = <<>>, !.pool = NewPool(0), !.answers = <<>>,
     !.log = Append(@, Line("warn",
               "Failed reconciliation for disappeared suggestions", 0, 0, ""))]

\* a check is started: isIssueFixedWithAISuggestion(suggestion)
StartCheck ==
  /\ rec.pc = "checking"
  /\ \E j \in Startable(rec.pool, MAX_CONCURRENT_CHECKS) :
       rec' = [rec EXCEPT !.pool = startTask(@, j),
                          !.invoked = @ \cup {rec.candidates[j]}]
  /\ UNCHANGED <<suggestions, cfg, call, runs, entities, fixEntities, pub, wr, calls>>

\* a check settles: the predicate resolves true or false, or rejects
SettleCheck ==
  /\ rec.pc = "checking"
  /\ \E j \in InFlight(rec.pool), v \in {"true", "false", null} :
       rec' = [rec EXCEPT !.pool = settleTask(@, j, v), !.answers[j] = v]
  /\ UNCHANGED <<suggestions, cfg, call, runs, entities, fixEntities, pub, wr, calls>>

\* the executor resolves
FinishChecks ==
  /\ rec.pc = "checking"
  /\ allSettled(rec.pool)
  /\ rec' = [rec EXCEPT
       !.pc = "marking",
       !.checkResults = limitConcurrencyAllSettled(rec.pool),
       !.fixed = fixedSuggestions(rec.candidates,
                                  limitConcurrencyAllSettled(rec.pool))]
  /\ UNCHANGED <<suggestions, cfg, call, runs, entities, fixEntities, pub, wr, calls>>

\* mutant: the payload is built whether or not save() succeeded
mayBuild_always(saved, hasBuilder) == hasBuilder

\* suggestionMarkedFixed && typeof buildFixEntityPayload === 'function'
mayBuild(saved, hasBuilder) == saved /\ hasBuilder

\* mutant: a rejected save() ends the loop
onSaveRejected_abort(frame, id) ==
  [frame EXCEPT
     !.pc = "done", !.outcome = "resolved",
     !.log = Append(@, Line("warn",
               "Failed reconciliation for disappeared suggestions", id, 0, ""))]

\* catch (e) of the save: the failure is logged, the loop goes on
onSaveRejected(frame, id) ==
  [frame EXCEPT
     !.log = Append(@, Line("warn", "Failed to mark suggestion as FIXED",
                            id, 0, ""))]

\* the call of the builder and what becomes of what it returns
onSaved(frame, id, returned) ==
  [frame EXCEPT
     !.built = Append(@, [suggestion |-> id,
                          opportunity |-> frame.args.opportunity,
                          isAuthorOnly |-> frame.args.isAuthorOnly,
                          returned |-> returned]),
     !.fixEntityObjects =
       IF returned = "payload"
       THEN Append(@, buildFixEntityPayload(id, frame.args.opportunity,
                                            frame.args.isAuthorOnly))
       ELSE @,
     !.log =
       IF returned = "throws"
       THEN Append(@, Line("warn", "Failed building fix entity for suggestion",
                           id, 0, ""))
       ELSE @]

\* one iteration of the loop over the fixed suggestions: save() resolves or
\* rejects; the builder, when it is called, returns a payload, returns
\* nothing or throws
MarkFixed ==
  /\ rec.pc = "marking"
  /\ rec.i <= Len(rec.fixed)
  /\ LET id == rec.fixed[rec.i]
         marked == [entities EXCEPT ![id].status = FIXED,
                                    ![id].updatedBy = "system"]
     IN  /\ entities' = marked
         /\ \E saved \in BOOLEAN, returned \in {"payload", "none", "throws"} :
              LET frame == [rec EXCEPT
                              !.i = @ + 1,
                              !.statusSet = @ \cup {id},
                              !.saveCalled = @ \cup {id},
                              !.saved = IF saved THEN @ \cup {id} ELSE @]
                  tried == IF saved THEN frame ELSE onSaveRejected(frame, id)
              IN  /\ mayBuild(saved, rec.args.hasBuilder) \/ returned = "none"
                  /\ suggestions' =
                       IF saved THEN [suggestions EXCEPT ![id] = marked[id]]
                       ELSE suggestions
                  /\ rec' = IF mayBuild(saved, rec.args.hasBuilder)
                            THEN onSaved(tried, id, returned)
                            ELSE tried
  /\ UNCHANGED <<cfg, call, runs, fixEntities, pub, wr, calls>>

\* mutant: a rejected addFixEntities rejects the call
onAddRejected_throws(frame) == [frame EXCEPT !.outcome = "rejected"]

\* catch (e) of addFixEntities: the failure is logged
onAddRejected(frame) ==
  [frame EXCEPT
     !.outcome = "resolved",
     !.log = Append(@, Line("warn", "Failed to add fix entities on opportunity",
                            0, 0, ""))]

\* mutant: addFixEntities is called even with no payload
mayAdd_always(fixEntityObjects, canAddFixEntities) == canAddFixEntities

\* fixEntityObjects.length > 0 && typeof opportunity.addFixEntities === 'function'
mayAdd(fixEntityObjects, canAddFixEntities) ==
  Len(fixEntityObjects) > 0 /\ canAddFixEntities

\* after the loop: the collected payloads are added in one call
AddFixEntities ==
  /\ rec.pc = "marking"
  /\ rec.i > Len(rec.fixed)
  /\ IF mayAdd(rec.fixEntityObjects, rec.args.canAddFixEntities)
     THEN \E added \in BOOLEAN :
            LET frame == [rec EXCEPT
                            !.pc = "done",
                            !.addCalls = Append(@, rec.fixEntityObjects)]
            IN  /\ fixEntities' =
                     IF added
                     THEN addFixEntities(fixEntities, rec.fixEntityObjects)
                     ELSE fixEntities
                /\ rec' =
                     IF added
                     THEN [frame EXCEPT
                             !.outcome = "resolved",
                             !.log = Append(@, Line("info",
                                       "Added n fix entities for opportunity",
                                       Len(rec.fixEntityObjects), 0, ""))]
                     ELSE onAddRejected(frame)
     ELSE /\ rec' = [rec EXCEPT !.pc = "done", !.outcome = "resolved"]
          /\ UNCHANGED fixEntities
  /\ UNCHANGED <<suggestions, cfg, call, runs, entities, pub, wr, calls>>

(***************************************************************************)
(* A call of reconcileDisappearedSuggestions on its own: every stored      *)
(* suggestion has disappeared from the audit.  The stores are those whose  *)
(* suggestions are all NEW, and the short ones of every mix of statuses.   *)
(***************************************************************************)
\* number of disappeared suggestions in NEW status
MaxDisappeared == 6

\* number of disappeared suggestions of arbitrary status
MaxMixed == 2

StoredSuggestion(k, status) ==
  [data |-> [key |-> k, url |-> Url(k), title |-> "old title"],
   status |-> status, updatedBy |-> "user"]

ReconcileStores ==
  {[k \in 1..n |-> StoredSuggestion(k, STATUS_NEW)] : n \in 0..MaxDisappeared}
  \cup UNION {{[k \in 1..n |-> StoredSuggestion(k, st[k])] :
                 st \in [1..n -> STATUSES]} : n \in 1..MaxMixed}

\* the arguments of a call: the long lists are reconciled with a builder
\* and an opportunity that takes fix entities, the short ones also without
\* and also for an author-only opportunity
ReconcileArgs(ents) ==
  {a \in [disappearedSuggestions : {Indices(ents)},
          opportunity : {"opp-id"},
          isAuthorOnly : BOOLEAN,
          hasBuilder : BOOLEAN,
          canAddFixEntities : BOOLEAN] :
     Len(ents) > MaxMixed =>
       a.hasBuilder /\ a.canAddFixEntities /\ ~a.isAuthorOnly}

DefaultConfiguration ==
  [requiresValidation |-> FALSE, mergeData |-> "default", mapNew |-> "whole",
   statusToSetForOutdated |-> OUTDATED]

InitReconcile ==
  /\ suggestions \in ReconcileStores
  /\ entities = suggestions
  /\ cfg = DefaultConfiguration
  /\ call = NoCall
  /\ runs = 0
  /\ fixEntities = <<>>
  /\ rec = NoReconcile
  /\ pub = NoPublish
  /\ wr = NoWrapper
  /\ calls = NoCalls

\* the call: the candidates are computed, the checks are handed to the
\* executor (or the call returns when there is no candidate); getStatus() of
\* a disappeared suggestion may throw while the candidates are computed
ReconcileDisappearedSuggestions ==
  /\ rec.pc = "idle"
  /\ \E args \in ReconcileArgs(entities), getStatusThrows \in BOOLEAN :
       /\ getStatusThrows => Len(args.disappearedSuggestions) > 0
       /\ rec' = IF getStatusThrows
                 THEN onUnexpected(reconcileFrame(args, entities))
                 ELSE reconcileFrame(args, entities)
  /\ UNCHANGED <<suggestions, cfg, call, runs, entities, fixEntities, pub, wr, calls>>

NextReconcile ==
  \/ ReconcileDisappearedSuggestions
  \/ StartCheck
  \/ SettleCheck
  \/ FinishChecks
  \/ MarkFixed
  \/ AddFixEntities

SpecReconcile == InitReconcile /\ [][NextReconcile]_vars

(***************************************************************************)
(* publishDeployedFixEntities.  A fix entity is stored with its status and *)
(* the ids of its linked suggestions; the id of a suggestion is its        *)
(* position in the store.  The frame pub holds the arguments of the call,  *)
(* the pool of the fix-entity checks, for each check the suggestions it    *)
(* fetched and the pool of its production checks, the loop over the        *)
(* results and what the call did: the calls of the fix-entity lookup, the  *)
(* production checks invoked and their answers, the fix entities saved.    *)
(***************************************************************************)
\* the position getFixEntitiesBySuggestionId answers for a suggestion id: 0
\* when it finds no suggestion
foundSuggestion(store, suggestionId) ==
  IF suggestionId \in DOMAIN store THEN suggestionId ELSE 0

\* currentAuditData && buildKey ? new Set(currentAuditData.map(buildKey)) : null
currentDataKeys(given, currentAuditData) ==
  IF given THEN [given |-> TRUE, keys |-> newDataKeys(currentAuditData)]
  ELSE [given |-> FALSE, keys |-> {}]

\* mutant: the fast path does not look at the current audit data
fastPathRejects_missingOnly(store, found, keys) ==
  \E x \in DOMAIN found : found[x] = 0

\* the fast path: a linked suggestion was not found, or its key is in the
\* current audit data
fastPathRejects(store, found, keys) ==
  \E x \in DOMAIN found :
    \/ found[x] = 0
    \/ keys.given /\ buildKey(store[found[x]].data) \in keys.keys

\* mutant: one resolved linked suggestion is enough
allResolved_some(httpResults) ==
  \E x \in DOMAIN httpResults : httpResults[x] = "true"

\* httpResults.every((r) => r === true)
allResolved(httpResults) ==
  \A x \in DOMAIN httpResults : httpResults[x] = "true"

NoTask == [phase |-> "none"]

\* the frame of a call that found the deployed fix entities
publishFrame(args, deployed) ==
  [pc |-> IF Len(deployed) = 0 THEN "done" ELSE "checking",
   outcome |-> IF Len(deployed) = 0 THEN "resolved" ELSE "pending",
   args |-> args,
   lookups |-> 1,
   deployed |-> deployed,
   pool |-> NewPool(Len(deployed)),
   task |-> [j \in DOMAIN deployed |-> NoTask],
   invoked |-> {},
   results |-> <<>>,
   i |-> 1,
   saveCalled |-> {},
   log |-> <<>>]

\* the frame of a call that returned before it looked for fix entities, or
\* whose lookup rejected
publishReturned(args, lookups, log) ==
  [publishFrame(args, <<>>) EXCEPT !.lookups = lookups, !.log = log]

\* mutant: a rejected fix-entity lookup rejects the call
publishDeployedFixEntities_lookupThrows(args, store, lookupFails) ==
  IF args.context /\ args.apis /\ lookupFails
  THEN [publishReturned(args, 1, <<>>) EXCEPT !.outcome = "rejected"]
  ELSE IF ~(args.context /\ args.apis) THEN publishReturned(args, 0, <<>>)
  ELSE publishFrame(args,
         SelectSeq(Indices(store), LAMBDA f : store[f].status = DEPLOYED))

\* the call, up to the fix-entity checks being handed to the executor
publishDeployedFixEntities(args, store, lookupFails) ==
  IF ~args.context THEN publishReturned(args, 0, <<>>)
  ELSE IF ~args.apis
  THEN publishReturned(args, 0,
         <<Line("debug", "FixEntity APIs not available; skipping publish.",
                0, 0, "")>>)
  ELSE IF lookupFails
  THEN publishReturned(args, 1,
         <<Line("warn", "Failed to publish deployed fix entities", 0, 0, "")>>)
  ELSE publishFrame(args,
         SelectSeq(Indices(store), LAMBDA f : store[f].status = DEPLOYED))

\* checkFixEntity starts for a deployed fix entity: without linked
\* suggestion it is not resolved; else the linked suggestions are fetched
StartFixEntityCheck ==
  /\ pub.pc = "checking"
  /\ \E j \in Startable(pub.pool, MAX_CONCURRENT_CHECKS) :
       LET suggestionIds == fixEntities[pub.deployed[j]].suggestionIds
           started == startTask(pub.pool, j)
       IN  pub' =
             IF Len(suggestionIds) = 0
             THEN [pub EXCEPT !.pool = settleTask(started, j, "false"),
                              !.task[j] = [phase |-> "over"]]
             ELSE [pub EXCEPT !.pool = started,
                              !.task[j] = [phase |-> "fetch"]]
  /\ UNCHANGED <<suggestions, cfg, call, runs, entities, fixEntities, rec, wr, calls>>

\* the linked suggestions are fetched (or a lookup rejects and with it the
\* check), the fast path decides or the production checks are handed to the
\* executor
FetchLinkedSuggestions ==
  /\ pub.pc = "checking"
  /\ \E j \in DOMAIN pub.task, fetched \in BOOLEAN :
       /\ pub.task[j].phase = "fetch"
       /\ LET suggestionIds == fixEntities[pub.deployed[j]].suggestionIds
              found == [x \in DOMAIN suggestionIds |->
                          foundSuggestion(suggestions, suggestionIds[x])]
          IN  pub' =
                IF ~fetched
                THEN [pub EXCEPT !.pool = settleTask(@, j, null),
                                 !.task[j] = [phase |-> "over"]]
                ELSE IF fastPathRejects(suggestions, found,
                                        pub.args.currentDataKeys)
                THEN [pub EXCEPT !.pool = settleTask(@, j, "false"),
                                 !.task[j] = [phase |-> "over"]]
                ELSE [pub EXCEPT
                        !.task[j] =
                          [phase |-> "http", found |-> found,
                           pool |-> NewPool(Len(found)),
                           answers |-> [x \in DOMAIN found |-> "none"]]]
  /\ UNCHANGED <<suggestions, cfg, call, runs, entities, fixEntities, rec, wr, calls>>

\* a production check is started: isIssueResolvedOnProduction?.(suggestion)
StartProductionCheck ==
  /\ pub.pc = "checking"
  /\ \E j \in DOMAIN pub.task :
       /\ pub.task[j].phase = "http"
       /\ \E x \in Startable(pub.task[j].pool, MAX_CONCURRENT_CHECKS) :
            pub' = [pub EXCEPT
                      !.task[j].pool = startTask(@, x),
                      !.invoked = IF pub.args.hasPredicate
                                  THEN @ \cup {<<j, x>>} ELSE @]
  /\ UNCHANGED <<suggestions, cfg, call, runs, entities, fixEntities, rec, wr, calls>>

\* a production check settles: the predicate resolves true or false, or
\* rejects; without predicate the check resolves with undefined
SettleProductionCheck ==
  /\ pub.pc = "checking"
  /\ \E j \in DOMAIN pub.task :
       /\ pub.task[j].phase = "http"
       /\ \E x \in InFlight(pub.task[j].pool) :
            \E v \in IF pub.args.hasPredicate THEN {"true", "false", null}
                     ELSE {"undefined"} :
              pub' = [pub EXCEPT !.task[j].pool = settleTask(@, x, v),
                                 !.task[j].answers[x] = v]
  /\ UNCHANGED <<suggestions, cfg, call, runs, entities, fixEntities, rec, wr, calls>>

\* the production checks of a fix entity are over: checkFixEntity resolves
FinishFixEntityCheck ==
  /\ pub.pc = "checking"
  /\ \E j \in DOMAIN pub.task :
       /\ pub.task[j].phase = "http"
       /\ allSettled(pub.task[j].pool)
       /\ pub' = [pub EXCEPT
            !.pool = settleTask(@, j,
                       IF allResolved(limitConcurrencyAllSettled(pub.task[j].pool))
                       THEN "true" ELSE "false"),
            !.task[j].phase = "over"]
  /\ UNCHANGED <<suggestions, cfg, call, runs, entities, fixEntities, rec, wr, calls>>

\* the executor of the fix-entity checks resolves
FinishPublishChecks ==
  /\ pub.pc = "checking"
  /\ allSettled(pub.pool)
  /\ pub' = [pub EXCEPT !.pc = "saving",
                        !.results = limitConcurrencyAllSettled(pub.pool)]
  /\ UNCHANGED <<suggestions, cfg, call, runs, entities, fixEntities, rec, wr, calls>>

\* mutant: a rejected save() of a fix entity ends the loop
onFixEntitySave_abort(frame, f, saved) ==
  IF saved
  THEN [frame EXCEPT
          !.i = @ + 1, !.saveCalled = @ \cup {f},
          !.log = Append(@, Line("info", "Published fix entity", f, 0, ""))]
  ELSE [frame EXCEPT
          !.i = Len(frame.results) + 1, !.saveCalled = @ \cup {f},
          !.log = Append(@, Line("warn",
                    "Failed to publish deployed fix entities", 0, 0, ""))]

\* try { setStatus; await save(); log.info } catch (e) { log.debug }: the
\* loop goes on with the next result
onFixEntitySave(frame, f, saved) ==
  [frame EXCEPT
     !.i = @ + 1,
     !.saveCalled = @ \cup {f},
     !.log = Append(@,
       IF saved THEN Line("info", "Published fix entity", f, 0, "")
       ELSE Line("debug", "Failed to save fix entity", f, 0, ""))]

\* one iteration of the loop over the results: a resolved fix entity is set
\* to PUBLISHED and saved, and save() resolves or rejects
PublishFixEntity ==
  /\ pub.pc = "saving"
  /\ pub.i <= Len(pub.results)
  /\ LET f == pub.deployed[pub.i]
     IN  IF pub.results[pub.i] = "true"
         THEN \E saved \in BOOLEAN :
                /\ fixEntities' =
                     IF saved THEN [fixEntities EXCEPT ![f].status = PUBLISHED]
                     ELSE fixEntities
                /\ pub' = onFixEntitySave(pub, f, saved)
         ELSE /\ pub' = [pub EXCEPT !.i = @ + 1]
              /\ UNCHANGED fixEntities
  /\ UNCHANGED <<suggestions, cfg, call, runs, entities, rec, wr, calls>>

\* the loop is over: the call resolves
FinishPublish ==
  /\ pub.pc = "saving"
  /\ pub.i > Len(pub.results)
  /\ pub' = [pub EXCEPT !.pc = "done", !.outcome = "resolved"]
  /\ UNCHANGED <<suggestions, cfg, call, runs, entities, fixEntities, rec, wr, calls>>

(***************************************************************************)
(* A call of publishDeployedFixEntities on its own, on a store of three    *)
(* suggestions and of fix entities linked to them or to a suggestion that  *)
(* is not there.                                                           *)
(***************************************************************************)
\* number of fix entities of the opportunity
MaxFixEntities == 2

\* the id of a suggestion that is not in the store
MissingSuggestion == Cardinality(Keys) + 2

LinkedSuggestionIds ==
  {<<>>, <<1>>, <<2>>, <<1, 2>>, <<MissingSuggestion>>, <<1, MissingSuggestion>>}

FixEntities == [status : {DEPLOYED, PUBLISHED}, suggestionIds : LinkedSuggestionIds]

\* a deployed fix entity linked to every suggestion of the store
FixEntityOfAll ==
  [status |-> DEPLOYED,
   suggestionIds |-> [k \in 1..(Cardinality(Keys) + 1) |-> k]]

FixEntityStores ==
  UNION {[1..n -> FixEntities] : n \in 0..MaxFixEntities}
  \cup {<<FixEntityOfAll, FixEntityOfAll>>}

PublishArgs ==
  {a \in [context : BOOLEAN, apis : BOOLEAN, hasPredicate : BOOLEAN,
          currentDataKeys : {currentDataKeys(FALSE, <<>>)}
                            \cup {currentDataKeys(TRUE, d) : d \in Batches}] :
     ~(a.context /\ a.apis) => a.hasPredicate /\ ~a.currentDataKeys.given}

InitPublish ==
  /\ suggestions = [k \in 1..(Cardinality(Keys) + 1) |->
                      StoredSuggestion(k, FIXED)]
  /\ entities = suggestions
  /\ cfg = DefaultConfiguration
  /\ call = NoCall
  /\ runs = 0
  /\ fixEntities \in FixEntityStores
  /\ rec = NoReconcile
  /\ pub = NoPublish
  /\ wr = NoWrapper
  /\ calls = NoCalls

\* the call: the deployed fix entities are looked up and their checks are
\* handed to the executor, or the call returns
PublishDeployedFixEntities ==
  /\ pub.pc = "idle"
  /\ \E args \in PublishArgs, lookupFails \in BOOLEAN :
       /\ lookupFails => args.context /\ args.apis
       /\ pub' = publishDeployedFixEntities(args, fixEntities, lookupFails)
  /\ UNCHANGED <<suggestions, cfg, call, runs, entities, fixEntities, rec, wr, calls>>

NextPublish ==
  \/ PublishDeployedFixEntities
  \/ StartFixEntityCheck
  \/ FetchLinkedSuggestions
  \/ StartProductionCheck
  \/ SettleProductionCheck
  \/ FinishFixEntityCheck
  \/ FinishPublishChecks
  \/ PublishFixEntity
  \/ FinishPublish

SpecPublish == InitPublish /\ [][NextPublish]_vars

(***************************************************************************)
(* syncSuggestionsWithPublishDetection.  The frame wr holds the arguments  *)
(* of the call, the stage it is in, the number of times it fetched the     *)
(* suggestions and, when it is over, whether it resolved or rejected and   *)
(* what the synchronizer did.  The reconcile and the publish stage are the *)
(* calls modelled above, on the frames rec and pub.                        *)
(***************************************************************************)
AUTHOR_ONLY_OPPORTUNITY_TYPES ==
  {"security-permissions-redundant", "security-permissions"}

getDisappearedSuggestions(existingSuggestions, keys) ==
  SelectSeq(Indices(existingSuggestions),
            LAMBDA i : buildKey(existingSuggestions[i].data) \notin keys)

\* mutant: the reconciler runs when one of its callbacks is supplied
runsReconcile_either(args) ==
  args.isIssueFixedWithAISuggestion \/ args.buildFixEntityPayload

\* typeof isIssueFixedWithAISuggestion === 'function'
\*   && typeof buildFixEntityPayload === 'function'
runsReconcile(args) == args.isIssueFixedWithAISuggestion /\ args.buildFixEntityPayload

\* mutant: the publish stage runs for every opportunity type
runsPublish_anyType(args) == args.isIssueResolvedOnProduction

\* the publish stage is skipped for an author-only opportunity type
runsPublish(args) ==
  /\ args.opportunityType \notin AUTHOR_ONLY_OPPORTUNITY_TYPES
  /\ args.isIssueResolvedOnProduction

NoSync == [outcome |-> "none"]

\* mutant: the publish stage does not wait for the reconciler
reconcileOver_early(args, frame) == TRUE

\* await reconcileDisappearedSuggestions(...): the reconciler, when it was
\* called, has resolved
reconcileOver(args, frame) == runsReconcile(args) => frame.pc = "done"

\* await publishDeployedFixEntities(...): the publish stage, when it was
\* called, has resolved
\* mutant: the wrapper waits for a publish stage that it did not call
publishOver_always(args, frame) == frame.pc = "done"

publishOver(args, frame) == runsPublish(args) => frame.pc = "done"

\* the frame of a call that is over
wrapperReturned(args, fetches, outcome, error, sync) ==
  [pc |-> "done", args |-> args, fetches |-> fetches, outcome |-> outcome,
   error |-> error, sync |-> sync]

\* the call: the suggestions are fetched and the reconciler is called
SyncSuggestionsWithPublishDetection(args, getFails) ==
  /\ wr.pc = "idle"
  /\ IF ~args.context
     THEN /\ wr' = wrapperReturned(args, 0, "resolved", NoError, NoSync)
          /\ UNCHANGED <<entities, rec>>
     ELSE IF getFails
     THEN /\ wr' = wrapperReturned(args, 1, "rejected", GetError, NoSync)
          /\ UNCHANGED <<entities, rec>>
     ELSE /\ wr' = [wrapperReturned(args, 1, "pending", NoError, NoSync)
                      EXCEPT !.pc = "reconcile"]
          /\ entities' = suggestions
          /\ rec' =
               IF runsReconcile(args)
               THEN reconcileFrame(
                      [disappearedSuggestions |->
                         getDisappearedSuggestions(suggestions,
                                                   newDataKeys(args.newData)),
                       opportunity |-> "opp-id",
                       isAuthorOnly |->
                         args.opportunityType \in AUTHOR_ONLY_OPPORTUNITY_TYPES,
                       hasBuilder |-> TRUE,
                       canAddFixEntities |-> TRUE],
                      suggestions)
               ELSE NoReconcile
  /\ UNCHANGED <<suggestions, cfg, call, runs, fixEntities, pub, calls>>

\* the reconciler is over (or was not called): the publish stage
PublishStage ==
  /\ wr.pc = "reconcile"
  /\ reconcileOver(wr.args, rec)
  /\ wr' = [wr EXCEPT !.pc = "publish"]
  /\ IF runsPublish(wr.args)
     THEN \E lookupFails \in BOOLEAN :
            pub' = publishDeployedFixEntities(
                     [context |-> TRUE, apis |-> TRUE, hasPredicate |-> TRUE,
                      currentDataKeys |-> currentDataKeys(TRUE, wr.args.newData)],
                     fixEntities, lookupFails)
     ELSE pub' = NoPublish
  /\ UNCHANGED <<suggestions, cfg, call, runs, entities, fixEntities, rec, calls>>

\* the publish stage is over (or was skipped): syncSuggestions is called on
\* the suggestion objects fetched at the start
SyncStage ==
  /\ wr.pc = "publish"
  /\ publishOver(wr.args, pub)
  /\ \E a \in Answers(entities, wr.args.newData, wr.args.scrapedUrlsSet, cfg) :
       LET in == [newData |-> wr.args.newData,
                  scrapedUrlsSet |-> wr.args.scrapedUrlsSet,
                  getFails |-> a.getFails,
                  bulkFails |-> a.bulkFails,
                  saveFails |-> a.saveFails,
                  addResult |-> a.addResult,
                  siteId |-> a.siteId]
           c == syncSuggestionsCall(wr.args.context, suggestions,
                                    Prefetched(TRUE, entities), in, cfg)
           r == c.res
       IN  /\ a.getFails => getSuggestionsCalls(Prefetched(TRUE, entities)) > 0
           /\ suggestions' = r.store
           /\ wr' = [wr EXCEPT !.pc = "done", !.outcome = r.outcome,
                               !.error = r.error,
                               !.fetches = @ + c.fetches,
                               !.sync = [r EXCEPT !.store = <<>>]]
  /\ UNCHANGED <<cfg, call, runs, entities, fixEntities, rec, pub, calls>>

(***************************************************************************)
(* A call of syncSuggestionsWithPublishDetection of an audit run, on an    *)
(* opportunity of at most two suggestions and one fix entity.              *)
(***************************************************************************)
OpportunityTypes == AUTHOR_ONLY_OPPORTUNITY_TYPES \cup {"broken-backlinks"}

WrapperStores ==
  UNION {{[k \in 1..n |-> StoredSuggestion(k, st[k])] :
            st \in [1..n -> {STATUS_NEW, OUTDATED, FIXED}]} : n \in 0..2}

WrapperFixEntityStores ==
  {<<>>} \cup {<<[status |-> DEPLOYED, suggestionIds |-> ids]>> :
                 ids \in {<<1>>, <<1, 2>>}}

WrapperArgs ==
  {a \in [context : BOOLEAN,
          opportunityType : OpportunityTypes,
          newData : Batches,
          scrapedUrlsSet : {NoScrapedUrlsSet, [given |-> TRUE, urls |-> {Url(1)}]},
          isIssueFixedWithAISuggestion : BOOLEAN,
          buildFixEntityPayload : BOOLEAN,
          isIssueResolvedOnProduction : BOOLEAN] :
     /\ ~a.context =>
          /\ a.newData = <<>>
          /\ ~a.scrapedUrlsSet.given
          /\ a.opportunityType = "broken-backlinks"
     /\ a.isIssueFixedWithAISuggestion # a.buildFixEntityPayload =>
          /\ ~a.scrapedUrlsSet.given
          /\ a.opportunityType = "broken-backlinks"}

InitWrapper ==
  /\ suggestions \in WrapperStores
  /\ entities = <<>>
  /\ cfg \in {c \in Configurations :
                /\ c.mergeData = "default"
                /\ c.mapNew = "whole"
                /\ c.statusToSetForOutdated = OUTDATED}
  /\ call = NoCall
  /\ runs = 0
  /\ fixEntities \in WrapperFixEntityStores
  /\ rec = NoReconcile
  /\ pub = NoPublish
  /\ wr = NoWrapper
  /\ calls = NoCalls

\* the audit calls syncSuggestionsWithPublishDetection
CallWrapper ==
  /\ call = NoCall
  /\ \E args \in WrapperArgs, getFails \in BOOLEAN :
       /\ getFails => args.context
       /\ SyncSuggestionsWithPublishDetection(args, getFails)

\* or the audit calls syncSuggestions itself, with or without context, and
\* with the suggestions it has fetched before or without them
SyncSuggestionsDirect ==
  /\ call = NoCall
  /\ wr.pc = "idle"
  /\ \E context \in BOOLEAN, given \in BOOLEAN, newData \in Batches :
       \E a \in Answers(suggestions, newData, NoScrapedUrlsSet, cfg) :
         LET in == [newData |-> newData,
                    scrapedUrlsSet |-> NoScrapedUrlsSet,
                    getFails |-> a.getFails,
                    bulkFails |-> a.bulkFails,
                    saveFails |-> a.saveFails,
                    addResult |-> a.addResult,
                    siteId |-> a.siteId]
             c == syncSuggestionsCall(context, suggestions,
                                      Prefetched(given, suggestions), in, cfg)
         IN  /\ a.getFails => context
             /\ a.getFails =>
                  getSuggestionsCalls(Prefetched(given, suggestions)) > 0
             /\ suggestions' = c.res.store
             /\ call' = [op |-> "direct", context |-> context,
                         prefetched |-> given, in |-> in, pre |-> suggestions,
                         fetches |-> c.fetches, res |-> c.res]
  /\ UNCHANGED <<cfg, runs, entities, fixEntities, rec, pub, wr, calls>>

NextWrapper ==
  \/ CallWrapper
  \/ SyncSuggestionsDirect
  \/ StartCheck
  \/ SettleCheck
  \/ FinishChecks
  \/ MarkFixed
  \/ AddFixEntities
  \/ PublishStage
  \/ StartFixEntityCheck
  \/ FetchLinkedSuggestions
  \/ StartProductionCheck
  \/ SettleProductionCheck
  \/ FinishFixEntityCheck
  \/ FinishPublishChecks
  \/ PublishFixEntity
  \/ FinishPublish
  \/ SyncStage

SpecWrapper == InitWrapper /\ [][NextWrapper]_vars

\* the steps of a call in progress: a check is started by the executor, a
\* callback or a store operation settles, a stage returns
WrapperSteps ==
  \/ StartCheck
  \/ SettleCheck
  \/ FinishChecks
  \/ MarkFixed
  \/ AddFixEntities
  \/ PublishStage
  \/ StartFixEntityCheck
  \/ FetchLinkedSuggestions
  \/ StartProductionCheck
  \/ SettleProductionCheck
  \/ FinishFixEntityCheck
  \/ FinishPublishChecks
  \/ PublishFixEntity
  \/ FinishPublish
  \/ SyncStage

\* every injected callback and every store operation eventually settles,
\* and the event loop runs what is ready
SpecWrapperFair ==
  InitWrapper /\ [][NextWrapper]_vars /\ WF_vars(WrapperSteps)

(***************************************************************************)
(* Two calls of syncSuggestions for the same opportunity.  A call is        *)
(* suspended at every await: after getSuggestions, after                   *)
(* handleOutdatedSuggestions, after the saves of the matched suggestions   *)
(* and after addSuggestions; the other call may run in between.  No store  *)
(* call fails here.  view is the store as the call knows it: what it       *)
(* fetched, with its own writes.                                           *)
(***************************************************************************)
Invocations == {1, 2}

callFrame ==
  [pc |-> "idle", newData |-> <<>>, existingSuggestions |-> <<>>,
   view |-> <<>>, stale |-> FALSE, overwrote |-> FALSE]

OverlapStores == InitialStores

InitOverlap ==
  /\ suggestions \in OverlapStores
  /\ entities = <<>>
  /\ cfg \in {c \in Configurations : c.mapNew = "whole"}
  /\ call = NoCall
  /\ runs = 0
  /\ fixEntities = <<>>
  /\ rec = NoReconcile
  /\ pub = NoPublish
  /\ wr = NoWrapper
  /\ calls \in [pc : {"overlap"}, serialized : BOOLEAN,
                of : {[p \in Invocations |-> callFrame]}]

\* under serialized invocation a call starts when no other call is running
mayStart(p) ==
  calls.serialized =>
    \A q \in Invocations \ {p} : calls.of[q].pc \in {"idle", "done"}

\* const existingSuggestions = prefetchedSuggestions ?? await getSuggestions()
GetSuggestions(p) ==
  /\ calls.of[p].pc = "idle"
  /\ mayStart(p)
  /\ \E newData \in Batches :
       calls' = [calls EXCEPT !.of[p] =
                   [@ EXCEPT !.pc = "fetched", !.newData = newData,
                             !.existingSuggestions = suggestions,
                             !.view = suggestions]]
  /\ UNCHANGED <<suggestions, cfg, call, runs, entities, fixEntities, rec,
                 pub, wr>>

\* await handleOutdatedSuggestions(...)
HandleOutdatedSuggestions(p) ==
  LET f == calls.of[p]
      outdated ==
        existingOutdatedSuggestions(f.existingSuggestions,
                                    newDataKeys(f.newData), NoScrapedUrlsSet)
      status == cfg.statusToSetForOutdated
  IN  /\ f.pc = "fetched"
      /\ suggestions' = IF outdated # {}
                        THEN bulkUpdateStatus(suggestions, outdated, status)
                        ELSE suggestions
      /\ calls' = [calls EXCEPT !.of[p] =
                     [@ EXCEPT !.pc = "outdated",
                               !.view = IF outdated # {}
                                        THEN bulkUpdateStatus(@, outdated, status)
                                        ELSE @,
                               !.stale = @ \/ (outdated # {}
                                               /\ suggestions # f.view)]]
      /\ UNCHANGED <<cfg, call, runs, entities, fixEntities, rec, pub, wr>>

\* await Promise.all(matched.map(... existing.save()))
SaveMatched(p) ==
  LET f == calls.of[p]
      existingSuggestions == f.existingSuggestions
      matched == {i \in DOMAIN existingSuggestions :
                    buildKey(existingSuggestions[i].data)
                      \in newDataKeys(f.newData)}
      updated ==
        [i \in matched |->
           updatedEntity(existingSuggestions[i],
             newDataByKey(f.newData, buildKey(existingSuggestions[i].data)),
             cfg)]
  IN  /\ f.pc = "outdated"
      /\ suggestions' = save(suggestions, updated, matched)
      /\ calls' = [calls EXCEPT !.of[p] =
                     [@ EXCEPT !.pc = "updated",
                               !.view = save(@, updated, matched),
                               !.stale = @ \/ (matched # {}
                                               /\ suggestions # f.view),
                               !.overwrote =
                                 @ \/ \E i \in matched :
                                        suggestions[i] # f.view[i]]]
      /\ UNCHANGED <<cfg, call, runs, entities, fixEntities, rec, pub, wr>>

\* await opportunity.addSuggestions(newSuggestions), when there are any
AddSuggestions(p) ==
  LET f == calls.of[p]
      submitted ==
        newSuggestions(f.newData,
                       existingSuggestionKeys(f.existingSuggestions), cfg)
  IN  /\ f.pc = "updated"
      /\ suggestions' = suggestions \o submitted
      /\ calls' = [calls EXCEPT !.of[p] =
                     [@ EXCEPT !.pc = "done",
                               !.view = @ \o submitted,
                               !.stale = @ \/ (Len(submitted) > 0
                                               /\ suggestions # f.view)]]
      /\ UNCHANGED <<cfg, call, runs, entities, fixEntities, rec, pub, wr>>

NextOverlap ==
  \E p \in Invocations :
    \/ GetSuggestions(p)
    \/ HandleOutdatedSuggestions(p)
    \/ SaveMatched(p)
    \/ AddSuggestions(p)

SpecOverlap == InitOverlap /\ [][NextOverlap]_vars

(***************************************************************************)
(* The data merge policies on their own, applied to any two payloads.  An  *)
(* object is the reference it is reached by and its fields; an object      *)
(* literal makes a new object.                                             *)
(***************************************************************************)
MergeFields == {"key", "url", "title"}

MergeValues == {"old", "new"}

\* the payloads: any fields, any values, the empty object included
Payloads == UNION {[fs -> MergeValues] : fs \in SUBSET MergeFields}

Object(ref, data) == [ref |-> ref, data |-> data]

\* ({ ... }): the merge functions return an object literal
mergedObject(name, existingData, newData) ==
  Object("literal", mergeDataFunction(name, existingData.data, newData.data))

InitMerge ==
  /\ suggestions = <<>>
  /\ entities = <<>>
  /\ cfg = DefaultConfiguration
  /\ call = NoCall
  /\ runs = 0
  /\ fixEntities = <<>>
  /\ rec = NoReconcile
  /\ pub = NoPublish
  /\ wr = NoWrapper
  /\ calls = NoCalls

\* a merge function is applied to two payloads, and again to what it
\* returned and the same new payload
MergeData ==
  /\ call.op = "none"
  /\ \E name \in {"default", "keepSame", "keepLatest"},
        e \in Payloads, n \in Payloads :
       LET existingData == Object("existingData", e)
           newData == Object("newData", n)
           merged == mergedObject(name, existingData, newData)
       IN  call' = [op |-> "merge", name |-> name,
                    existingData |-> existingData, newData |-> newData,
                    merged |-> merged,
                    again |-> mergedObject(name, merged, newData)]
  /\ UNCHANGED <<suggestions, cfg, runs, entities, fixEntities, rec, pub,
                 wr, calls>>

NextMerge == MergeData

SpecMerge == InitMerge /\ [][NextMerge]_vars

(***************************************************************************)
(* Properties.  call.pre is the store before the last call, suggestions    *)
(* the store after it; a suggestion keeps its position.                    *)
(***************************************************************************)
Called == call.op = "syncSuggestions"

KeyOf(sugg) == ToString(sugg.data.key)

\* the key of suggestion i of the store before the call is among the
\* findings of the call
Found(i) ==
  \E j \in DOMAIN call.in.newData :
    ToString(call.in.newData[j].key) = KeyOf(call.pre[i])

DeployedData(data) ==
  \/ "tokowakaDeployed" \in DOMAIN data /\ data.tokowakaDeployed # 0
  \/ "edgeDeployed" \in DOMAIN data /\ data.edgeDeployed # 0

UrlScraped(data) ==
  /\ "url" \in DOMAIN data
  /\ data.url \in call.in.scrapedUrlsSet.urls

\* C1 (Stickiness): a suggestion that is REJECTED before a call of
\* syncSuggestions is REJECTED after it, whether its key is found again (with
\* changed or identical data) or not, for every site policy and scraped set.
C1_RejectedIsSticky ==
  Called =>
    \A i \in DOMAIN call.pre :
      call.pre[i].status = REJECTED => suggestions[i].status = REJECTED

\* a REJECTED suggestion was found again with changed data, was rewritten
\* and is still REJECTED
C1_Witness ==
  /\ Called
  /\ \E i \in DOMAIN call.pre :
       /\ call.pre[i].status = REJECTED
       /\ Found(i)
       /\ suggestions[i].data # call.pre[i].data
       /\ suggestions[i].status = REJECTED

\* C2 (Transition relation): the only status changes syncSuggestions makes
\* to an existing suggestion are NEW -> statusToSetForOutdated when its key is
\* absent from the findings and OUTDATED -> NEW or PENDING_VALIDATION when
\* its key is present; every other status is kept, matched or not.
C2_StatusTransitions ==
  Called =>
    \A i \in DOMAIN call.pre :
      LET before == call.pre[i].status
          after == suggestions[i].status
      IN  before # after =>
            \/ /\ before = STATUS_NEW
               /\ ~Found(i)
               /\ after = cfg.statusToSetForOutdated
            \/ /\ before = OUTDATED
               /\ Found(i)
               /\ after \in {STATUS_NEW, PENDING_VALIDATION}

\* one call outdated a NEW suggestion and reopened an OUTDATED one
C2_Witness ==
  /\ Called
  /\ \E i, j \in DOMAIN call.pre :
       /\ call.pre[i].status = STATUS_NEW
       /\ suggestions[i].status = OUTDATED
       /\ call.pre[j].status = OUTDATED
       /\ suggestions[j].status = STATUS_NEW

\* C3 (Outdated reversibility): when the key of an OUTDATED suggestion is
\* among the findings of a call whose store writes up to that suggestion's
\* save() are persisted, its status after the call is PENDING_VALIDATION
\* if the site requires validation and NEW otherwise, and the call submits
\* no new suggestion with that key.
C3_OutdatedReopens ==
  Called /\ ~call.in.getFails /\ ~call.in.bulkFails =>
    \A i \in DOMAIN call.pre :
      call.pre[i].status = OUTDATED /\ Found(i) =>
        /\ i \notin call.in.saveFails =>
             suggestions[i].status =
               (IF cfg.requiresValidation THEN PENDING_VALIDATION
                ELSE STATUS_NEW)
        /\ \A j \in DOMAIN call.res.submitted :
             KeyOf(call.res.submitted[j]) # KeyOf(call.pre[i])
        /\ \A j \in DOMAIN suggestions :
             KeyOf(suggestions[j]) = KeyOf(call.pre[i]) => j \in DOMAIN call.pre

\* an OUTDATED suggestion of a site that requires validation was found again
\* together with a new finding, and was reopened as PENDING_VALIDATION
C3_Witness ==
  /\ Called
  /\ cfg.requiresValidation
  /\ call.res.created > 0
  /\ \E i \in DOMAIN call.pre :
       /\ call.pre[i].status = OUTDATED
       /\ Found(i)
       /\ suggestions[i].status = PENDING_VALIDATION

\* C4 (Deployed protection): a suggestion whose data has tokowakaDeployed or
\* edgeDeployed truthy is never passed to bulkUpdateStatus by the outdating
\* step, whatever its status and the scraped set.
C4_DeployedNeverOutdated ==
  Called =>
    \A i \in call.res.bulk : ~DeployedData(call.pre[i].data)

\* a NEW suggestion with edgeDeployed set, whose key is absent from the
\* findings and whose url was scraped, went through a call that outdated
\* another suggestion, and is still NEW
C4_Witness ==
  /\ Called
  /\ call.res.bulk # {}
  /\ \E i \in DOMAIN call.pre :
       /\ call.pre[i].status = STATUS_NEW
       /\ "edgeDeployed" \in DOMAIN call.pre[i].data
       /\ ~Found(i)
       /\ call.in.scrapedUrlsSet.given
       /\ UrlScraped(call.pre[i].data)
       /\ suggestions[i].status = STATUS_NEW

\* C5 (Scraped-filter precision): in a call whose bulkUpdateStatus is
\* persisted, a NEW, non-deployed suggestion whose key is absent from the
\* findings gets statusToSetForOutdated if a scraped set is supplied and
\* holds its url, or if no scraped set is supplied; with a scraped set that
\* does not hold its url it is left untouched.
C5_ScrapedFilter ==
  Called /\ ~call.in.getFails /\ ~call.in.bulkFails =>
    \A i \in DOMAIN call.pre :
      /\ call.pre[i].status = STATUS_NEW
      /\ ~DeployedData(call.pre[i].data)
      /\ ~Found(i)
      => IF call.in.scrapedUrlsSet.given => UrlScraped(call.pre[i].data)
         THEN /\ i \in call.res.bulk
              /\ suggestions[i].status = cfg.statusToSetForOutdated
         ELSE /\ i \notin call.res.bulk
              /\ suggestions[i] = call.pre[i]

\* two NEW suggestions disappeared, the scraped set holds the url of one:
\* that one is outdated, the other untouched
C5_Witness ==
  /\ Called
  /\ call.in.scrapedUrlsSet.given
  /\ \E i, j \in DOMAIN call.pre :
       /\ call.pre[i].status = STATUS_NEW /\ call.pre[j].status = STATUS_NEW
       /\ ~Found(i) /\ ~Found(j)
       /\ UrlScraped(call.pre[i].data)
       /\ "url" \in DOMAIN call.pre[j].data
       /\ ~UrlScraped(call.pre[j].data)
       /\ suggestions[i].status = OUTDATED
       /\ suggestions[j] = call.pre[j]

\* the suggestions in a status other than OUTDATED that carry the key of the
\* finding
Covering(finding) ==
  {i \in DOMAIN suggestions :
     /\ KeyOf(suggestions[i]) = ToString(finding.key)
     /\ suggestions[i].status # OUTDATED}

SecondCallChangedNothing ==
  /\ Len(suggestions) = Len(call.pre)
  /\ \A i \in DOMAIN call.pre :
       /\ suggestions[i].status = call.pre[i].status
       /\ suggestions[i].data = call.pre[i].data
  /\ call.res.bulk = {}
  /\ call.res.submitted = <<>>

\* the first call of the run resolved and the store reported no failure
FirstCallSucceeded ==
  call.prev.outcome = "resolved" /\ call.prev.failed = 0

NoneCreated ==
  /\ call.in.addResult # <<>>
  /\ \A j \in DOMAIN call.in.addResult : call.in.addResult[j] # null

\* C8 (Hard failure): when addSuggestions reports no created item and at
\* least one error item, syncSuggestions rejects with an error that names
\* the site ('unknown' without getSiteId) and carries the error text of the
\* first error item, or 'Unknown error' when that item has none.
C8_AllFailedRejects ==
  Called /\ NoneCreated =>
    /\ call.res.outcome = "rejected"
    /\ call.res.error.message = "Failed to create suggestions for siteId"
    /\ call.res.error.siteId =
         (IF call.in.siteId = null THEN "unknown" ELSE call.in.siteId)
    /\ call.res.error.sampleError =
         (IF call.in.addResult[1] = "" THEN "Unknown error"
          ELSE call.in.addResult[1])

\* two suggestions were submitted and both failed, the first without error
\* text: the call rejected with 'Unknown error'
C8_Witness ==
  /\ Called
  /\ call.in.addResult = <<"", "some error">>
  /\ call.res.outcome = "rejected"
  /\ call.res.error.sampleError = "Unknown error"
  /\ call.res.error.siteId = "site-id"

CreatedCount == Cardinality({j \in DOMAIN call.in.addResult :
                               call.in.addResult[j] = null})

FailedCount == Cardinality({j \in DOMAIN call.in.addResult :
                              call.in.addResult[j] # null})

\* C9 (Partial success): when addSuggestions reports at least one created
\* item and at least one error item, syncSuggestions resolves and logs the
\* warning 'Partial success' with the number created and the number failed.
C9_PartialSuccessResolves ==
  Called /\ CreatedCount >= 1 /\ FailedCount >= 1 =>
    /\ call.res.outcome = "resolved"
    /\ \E l \in DOMAIN call.res.log :
         /\ call.res.log[l].level = "warn"
         /\ call.res.log[l].msg = "Partial success: Created n suggestions, m failed"
         /\ call.res.log[l].n = CreatedCount
         /\ call.res.log[l].m = FailedCount

\* of two submitted suggestions the first failed and the second was stored
C9_Witness ==
  /\ Called
  /\ call.in.addResult = <<"some error", null>>
  /\ call.res.outcome = "resolved"
  /\ Len(suggestions) = Len(call.pre) + 1

\* C10 (Soft persist errors of the matched update), as claimed: when save()
\* of a matched suggestion rejects, the failure is logged, the other matched
\* suggestions are updated, the unmatched findings are submitted to the
\* batch create and syncSuggestions does not reject because of it.
C10_SaveFailureIsSoft ==
  Called /\ call.res.saveCalled \cap call.in.saveFails # {} =>
    /\ call.res.error # SaveError
    /\ \E l \in DOMAIN call.res.log : call.res.log[l].level \in {"warn", "error"}
    /\ \A i \in call.res.saveCalled \ call.in.saveFails :
         suggestions[i].updatedBy = "system"
    /\ (\E j \in DOMAIN call.in.newData :
          \A i \in DOMAIN call.pre :
            KeyOf(call.pre[i]) # ToString(call.in.newData[j].key))
       => call.res.submitted # <<>>

\* the call came to the creation of the unmatched findings
CreateStepReached ==
  Called /\ call.res.error \notin {GetError, BulkError, SaveError}

\* the findings of the call whose key no existing suggestion carries
Unmatched ==
  {j \in DOMAIN call.in.newData :
     \A i \in DOMAIN call.pre :
       KeyOf(call.pre[i]) # ToString(call.in.newData[j].key)}

\* C26 (Create unmatched): a call of syncSuggestions that comes to its
\* create step submits to addSuggestions exactly the findings whose key no
\* existing suggestion carries, whatever its status, each with status
\* PENDING_VALIDATION if the site requires validation and NEW otherwise,
\* also when mapNewSuggestion sets a status; nothing is submitted when
\* every finding is matched.
C26_CreateUnmatched ==
  CreateStepReached =>
    /\ Len(call.res.submitted) = Cardinality(Unmatched)
    /\ \A j \in Unmatched :
         Cardinality({x \in DOMAIN call.res.submitted :
                        KeyOf(call.res.submitted[x])
                          = ToString(call.in.newData[j].key)})
           = Cardinality({k \in Unmatched :
                            call.in.newData[k].key = call.in.newData[j].key})
    /\ \A x \in DOMAIN call.res.submitted :
         /\ call.res.submitted[x].status =
              (IF cfg.requiresValidation THEN PENDING_VALIDATION ELSE STATUS_NEW)
         /\ \E j \in Unmatched :
              KeyOf(call.res.submitted[x]) = ToString(call.in.newData[j].key)
    /\ call.res.created + call.res.failed = Len(call.res.submitted)

\* of two findings one is matched by a REJECTED suggestion; the other is
\* submitted as PENDING_VALIDATION although the mapper set APPROVED
C26_Witness ==
  /\ Called
  /\ cfg.mapNew = "withStatus"
  /\ cfg.requiresValidation
  /\ Len(call.in.newData) = 2
  /\ \E i \in DOMAIN call.pre : call.pre[i].status = REJECTED /\ Found(i)
  /\ Len(call.res.submitted) = 1
  /\ call.res.submitted[1].status = PENDING_VALIDATION
  /\ call.res.created = 1

\* the first call rejected on its batch create and the call was made again
\* with the same arguments, every store operation now succeeding
RetriedAfterCreateFailure ==
  /\ Called
  /\ call.again
  /\ call.prev.outcome = "rejected"
  /\ call.prev.failed > 0
  /\ call.res.outcome = "resolved"
  /\ call.res.failed = 0

\* the arguments of the call with the answers of a store that fails nothing
\* and creates every suggestion submitted from the state store
FullySuccessful(store) ==
  [call.in EXCEPT
     !.getFails = FALSE, !.bulkFails = FALSE, !.saveFails = {},
     !.addResult =
       [j \in 1..Len(newSuggestions(call.in.newData,
                                     existingSuggestionKeys(store), cfg))
          |-> null]]

\* C28 (Safe retry): when syncSuggestions has rejected because the batch
\* create reported no created item and is called again with the same
\* arguments, the create now succeeding, the suggestions are those (keys,
\* statuses, data) that one fully successful call would have left from the
\* original state.
C28_SafeRetry ==
  RetriedAfterCreateFailure =>
    suggestions = syncSuggestions(call.first, FullySuccessful(call.first), cfg).store

\* the first call reopened an OUTDATED suggestion and failed to create the
\* suggestion of a second finding; the retry created it
C28_Witness ==
  /\ RetriedAfterCreateFailure
  /\ call.first # call.pre
  /\ \E i \in DOMAIN call.first : call.first[i].status = OUTDATED /\ Found(i)
  /\ call.res.created = 1
  /\ Len(suggestions) = Len(call.first) + 1

(***************************************************************************)
(* Properties of reconcileDisappearedSuggestions.  rec.pre holds the       *)
(* suggestion objects as they were when the call began.                    *)
(***************************************************************************)
Reconciling == rec.pc # "idle"

\* the executor has resolved
ChecksDone == rec.pc = "marking" \/ (rec.pc = "done" /\ Len(rec.candidates) > 0)

\* the disappeared suggestions whose predicate resolved true
AnsweredTrue ==
  {rec.candidates[j] : j \in {x \in DOMAIN rec.candidates : rec.answers[x] = "true"}}

\* C12 (Bounded concurrency in the reconciler): at every instant of a call
\* of reconcileDisappearedSuggestions at most 5 invocations of
\* isIssueFixedWithAISuggestion are started and not yet settled.
C12_AtMostFiveChecksInFlight ==
  Reconciling =>
    Cardinality({j \in DOMAIN rec.candidates :
                   rec.candidates[j] \in rec.invoked /\ rec.answers[j] = "none"}) <= 5

\* five checks are in flight and a sixth candidate waits for its turn
C12_Witness ==
  /\ rec.pc = "checking"
  /\ Cardinality({j \in DOMAIN rec.candidates :
                    rec.candidates[j] \in rec.invoked /\ rec.answers[j] = "none"}) = 5
  /\ \E j \in DOMAIN rec.candidates : rec.candidates[j] \notin rec.invoked

\* C13 (Settle-all contract of the executor): no task is started twice;
\* when the executor has resolved, every task was started exactly once and
\* the result holds one entry per task, at the task's position: what the
\* task resolved with, or the failure marker when it rejected, whatever the
\* order of completion.  A rejected task does not keep the executor from
\* resolving.
C13_SettleAll ==
  Reconciling =>
    /\ \A j \in DOMAIN rec.candidates : rec.pool.starts[j] <= 1
    /\ ChecksDone =>
         /\ Len(rec.checkResults) = Len(rec.candidates)
         /\ \A j \in DOMAIN rec.candidates :
              /\ rec.pool.starts[j] = 1
              /\ rec.checkResults[j] =
                   (IF rec.answers[j] = null THEN FailureMarker
                    ELSE rec.answers[j])
              /\ rec.answers[j] # "none"

\* the executor resolved although the first of three tasks rejected; the
\* other two resolved true and false
C13_Witness ==
  /\ ChecksDone
  /\ Len(rec.candidates) = 3
  /\ rec.answers = <<null, "true", "false">>
  /\ rec.checkResults = <<FailureMarker, "true", "false">>

\* C17 (Reconciler transitions): status FIXED and updatedBy 'system' are
\* set on exactly the disappeared suggestions in NEW status whose predicate
\* resolved true; the predicate is never invoked for a disappeared
\* suggestion in another status and nothing is written to it; a NEW one
\* whose predicate resolved false or rejected is left unchanged.
C17_ReconcilerTransitions ==
  Reconciling =>
    /\ rec.statusSet \subseteq AnsweredTrue
    /\ rec.pc = "done" => rec.statusSet = AnsweredTrue
    /\ \A id \in DOMAIN rec.pre :
         /\ id \in rec.statusSet =>
              /\ rec.pre[id].status = STATUS_NEW
              /\ entities[id].status = FIXED
              /\ entities[id].updatedBy = "system"
         /\ rec.pre[id].status # STATUS_NEW => id \notin rec.invoked
         /\ id \notin AnsweredTrue =>
              /\ id \notin rec.saveCalled
              /\ entities[id] = rec.pre[id]
              /\ suggestions[id] = rec.pre[id]
         /\ suggestions[id] # rec.pre[id] =>
              /\ suggestions[id].status = FIXED
              /\ suggestions[id].updatedBy = "system"

\* of a NEW and an APPROVED disappeared suggestion, both claimed fixed by
\* nobody but the first, the first is FIXED and the second was not touched
C17_Witness ==
  /\ rec.pc = "done"
  /\ Len(rec.pre) = 2
  /\ rec.pre[1].status = STATUS_NEW
  /\ rec.pre[2].status = APPROVED
  /\ suggestions[1].status = FIXED
  /\ suggestions[1].updatedBy = "system"
  /\ suggestions[2] = rec.pre[2]
  /\ rec.invoked = {1}

\* the builder calls made for a suggestion
BuiltFor(id) == {b \in DOMAIN rec.built : rec.built[b].suggestion = id}

\* C18 (Reconciler failure isolation): when the call is over, every
\* suggestion whose predicate resolved true was set to FIXED and saved,
\* and, when its save succeeded, the builder was called for it and the
\* payload it returned was collected, whatever failed for other
\* suggestions (a predicate or a save() rejecting, the builder throwing).
C18_FailureIsolation ==
  rec.pc = "done" =>
    \A id \in AnsweredTrue :
      /\ entities[id].status = FIXED
      /\ id \in rec.saveCalled
      /\ id \in rec.saved =>
           /\ suggestions[id].status = FIXED
           /\ rec.args.hasBuilder =>
                /\ Cardinality(BuiltFor(id)) = 1
                /\ \A b \in BuiltFor(id) :
                     rec.built[b].returned = "payload" =>
                       \E f \in DOMAIN rec.fixEntityObjects :
                         rec.fixEntityObjects[f].suggestions = <<id>>

\* the predicate rejected for one suggestion, save() rejected for the next,
\* the builder threw for the third, and the fourth was saved and its payload
\* collected
C18_Witness ==
  /\ rec.pc = "done"
  /\ Len(rec.candidates) = 4
  /\ rec.answers = <<null, "true", "true", "true">>
  /\ rec.saved = {3, 4}
  /\ \E b \in BuiltFor(3) : rec.built[b].returned = "throws"
  /\ suggestions[4].status = FIXED
  /\ Len(rec.fixEntityObjects) = 1
  /\ rec.fixEntityObjects[1].suggestions = <<4>>

\* C19 (Payload only after the FIXED status is persisted): the builder is
\* called, with (suggestion, opportunity, isAuthorOnly), only for a
\* suggestion whose save() succeeded, and no fix entity that refers to a
\* suggestion whose save() rejected is passed to addFixEntities.
C19_PayloadAfterPersist ==
  Reconciling =>
    /\ \A b \in DOMAIN rec.built :
         /\ rec.built[b].suggestion \in rec.saved
         /\ suggestions[rec.built[b].suggestion].status = FIXED
         /\ rec.built[b].opportunity = rec.args.opportunity
         /\ rec.built[b].isAuthorOnly = rec.args.isAuthorOnly
    /\ \A c \in DOMAIN rec.addCalls :
         \A f \in DOMAIN rec.addCalls[c] :
           \A x \in DOMAIN rec.addCalls[c][f].suggestions :
             rec.addCalls[c][f].suggestions[x] \in rec.saved

\* save() rejected for the first fixed suggestion and succeeded for the
\* second: only the second reached the builder, called with isAuthorOnly
C19_Witness ==
  /\ rec.pc = "done"
  /\ rec.args.isAuthorOnly
  /\ rec.saveCalled = {1, 2}
  /\ rec.saved = {2}
  /\ Len(rec.built) = 1
  /\ rec.built[1].suggestion = 2
  /\ rec.built[1].isAuthorOnly
  /\ Len(rec.addCalls) = 1

\* C20 (One batch add of the fix entities): addFixEntities is called at
\* most once, after the loop over the fixed suggestions, with all the
\* collected payloads; it is not called when no payload was collected; its
\* rejection is logged and the reconciler resolves.
C20_OneBatchAdd ==
  Reconciling =>
    /\ Len(rec.addCalls) <= 1
    /\ rec.addCalls # <<>> =>
         /\ rec.i > Len(rec.fixed)
         /\ rec.addCalls[1] = rec.fixEntityObjects
         /\ Len(rec.fixEntityObjects) > 0
         /\ Len(rec.fixEntityObjects) =
              Cardinality({b \in DOMAIN rec.built : rec.built[b].returned = "payload"})
    /\ rec.pc = "done" =>
         /\ rec.outcome = "resolved"
         /\ Len(rec.fixEntityObjects) > 0 /\ rec.args.canAddFixEntities
              => Len(rec.addCalls) = 1
         /\ Len(rec.addCalls) = 1 /\ Len(fixEntities) = 0 =>
              \E l \in DOMAIN rec.log :
                /\ rec.log[l].level = "warn"
                /\ rec.log[l].msg = "Failed to add fix entities on opportunity"

\* two payloads were collected and addFixEntities, called once with both,
\* rejected: the call resolved and the failure is in the log
C20_Witness ==
  /\ rec.pc = "done"
  /\ rec.outcome = "resolved"
  /\ Len(rec.addCalls) = 1
  /\ Len(rec.addCalls[1]) = 2
  /\ fixEntities = <<>>
  /\ \E l \in DOMAIN rec.log :
       rec.log[l].msg = "Failed to add fix entities on opportunity"

(***************************************************************************)
(* Properties of publishDeployedFixEntities.                               *)
(***************************************************************************)
Publishing == pub.pc # "idle"

\* the linked suggestion ids of the j-th deployed fix entity
LinkedIds(j) == fixEntities[pub.deployed[j]].suggestionIds

\* a linked suggestion of the j-th deployed fix entity is in the store and
\* its key is in the current audit data
LinkedKeyIsCurrent(j) ==
  /\ pub.args.currentDataKeys.given
  /\ \E x \in DOMAIN LinkedIds(j) :
       /\ LinkedIds(j)[x] \in DOMAIN suggestions
       /\ KeyOf(suggestions[LinkedIds(j)[x]]) \in pub.args.currentDataKeys.keys

\* the predicate was invoked for every linked suggestion of the j-th
\* deployed fix entity and resolved true for each
PredicateTrueForAll(j) ==
  /\ "answers" \in DOMAIN pub.task[j]
  /\ \A x \in DOMAIN LinkedIds(j) :
       <<j, x>> \in pub.invoked /\ pub.task[j].answers[x] = "true"

\* C15 (Fast-path short-circuit): with currentAuditData and buildKey
\* supplied, when a linked suggestion of a deployed fix entity has its key
\* in the current-run key set, isIssueResolvedOnProduction is invoked for no
\* suggestion of that fix entity and the fix entity is not published.
C15_FastPath ==
  Publishing =>
    \A j \in DOMAIN pub.deployed :
      LinkedKeyIsCurrent(j) =>
        /\ \A x \in DOMAIN LinkedIds(j) : <<j, x>> \notin pub.invoked
        /\ pub.deployed[j] \notin pub.saveCalled
        /\ fixEntities[pub.deployed[j]].status = DEPLOYED

\* of two fix entities the first is linked to suggestions 1 and 2, and the
\* key of 2 only is in the current audit data: no check was made for it;
\* the second, linked to suggestion 1, was checked and published
C15_Witness ==
  /\ pub.pc = "done"
  /\ Len(pub.deployed) = 2
  /\ LinkedIds(1) = <<1, 2>>
  /\ LinkedIds(2) = <<1>>
  /\ pub.args.currentDataKeys = [given |-> TRUE, keys |-> {"2"}]
  /\ pub.invoked = {<<2, 1>>}
  /\ fixEntities[1].status = DEPLOYED
  /\ fixEntities[2].status = PUBLISHED

\* C16 (Publication condition): a DEPLOYED fix entity is set to PUBLISHED
\* if and only if it has a linked suggestion id, every linked suggestion is
\* found, no linked suggestion's key is in the current-run key set and
\* isIssueResolvedOnProduction returned true for every linked suggestion; a
\* predicate that returns false or rejects for one linked suggestion leaves
\* the fix entity DEPLOYED.
C16_PublicationCondition ==
  pub.pc = "done" =>
    \A j \in DOMAIN pub.deployed :
      /\ pub.deployed[j] \in pub.saveCalled <=>
           /\ Len(LinkedIds(j)) > 0
           /\ \A x \in DOMAIN LinkedIds(j) : LinkedIds(j)[x] \in DOMAIN suggestions
           /\ ~LinkedKeyIsCurrent(j)
           /\ PredicateTrueForAll(j)
      /\ fixEntities[pub.deployed[j]].status = PUBLISHED
           => pub.deployed[j] \in pub.saveCalled
      /\ pub.deployed[j] \notin pub.saveCalled
           => fixEntities[pub.deployed[j]].status = DEPLOYED

\* two fix entities are linked to suggestions 1 and 2: the predicate was
\* true for both suggestions of the first, which is PUBLISHED, and rejected
\* for one of the second, which is DEPLOYED
C16_Witness ==
  /\ pub.pc = "done"
  /\ Len(pub.deployed) = 2
  /\ LinkedIds(1) = <<1, 2>>
  /\ LinkedIds(2) = <<1, 2>>
  /\ pub.task[1].phase = "over"
  /\ "answers" \in DOMAIN pub.task[1]
  /\ "answers" \in DOMAIN pub.task[2]
  /\ pub.task[1].answers = <<"true", "true">>
  /\ pub.task[2].answers = <<"true", null>>
  /\ fixEntities[1].status = PUBLISHED
  /\ fixEntities[2].status = DEPLOYED

\* a call of syncSuggestionsWithPublishDetection is over
WrapperDone == wr.pc = "done"

\* C11 (Propagation policy): a call of syncSuggestionsWithPublishDetection
\* rejects only where the batch create reported no created item and at
\* least one error; every other failure is absorbed and logged.
C11_PropagationPolicy ==
  WrapperDone /\ wr.outcome = "rejected" =>
    wr.error.message = "Failed to create suggestions for siteId"

\* the call went past the fetch of the suggestions and the reconcile stage
PublishStageReached == wr.pc = "publish" \/ (WrapperDone /\ wr.sync # NoSync)

\* C14 (Author-only skip): for an opportunity type of
\* AUTHOR_ONLY_OPPORTUNITY_TYPES the call never looks up the fix entities
\* and never invokes isIssueResolvedOnProduction, so that no fix entity goes
\* from DEPLOYED to PUBLISHED, even with isIssueResolvedOnProduction
\* supplied; for any other type with the callback supplied, the call that
\* comes to its publish stage looks the fix entities up, once.
C14_AuthorOnlySkip ==
  wr.pc # "idle" =>
    /\ wr.args.opportunityType \in AUTHOR_ONLY_OPPORTUNITY_TYPES =>
         /\ pub = NoPublish
         /\ \A f \in DOMAIN fixEntities : fixEntities[f].status = DEPLOYED
    /\ /\ wr.args.opportunityType \notin AUTHOR_ONLY_OPPORTUNITY_TYPES
       /\ wr.args.isIssueResolvedOnProduction
       /\ PublishStageReached
       => pub # NoPublish /\ pub.lookups = 1

\* a call for an author-only type with isIssueResolvedOnProduction supplied
\* is over, and the deployed fix entity of a suggestion that is in no
\* finding of the run is still DEPLOYED
C14_Witness ==
  /\ WrapperDone
  /\ wr.outcome = "resolved"
  /\ wr.args.opportunityType = "security-permissions"
  /\ wr.args.isIssueResolvedOnProduction
  /\ wr.args.newData = <<>>
  /\ Len(suggestions) = 2
  /\ Len(fixEntities) >= 1
  /\ fixEntities[1] = [status |-> DEPLOYED, suggestionIds |-> <<1>>]

\* the log of the reconciler holds a warning with this text about n
ReconcilerWarned(msg, n) ==
  \E l \in DOMAIN rec.log :
    rec.log[l].level = "warn" /\ rec.log[l].msg = msg /\ rec.log[l].n = n

\* the candidates whose predicate rejected
AnswerRejected == {j \in DOMAIN rec.candidates : rec.answers[j] = null}

PublisherLogged(level, msg, n) ==
  \E l \in DOMAIN pub.log :
    pub.log[l].level = level /\ pub.log[l].msg = msg /\ pub.log[l].n = n

\* the fix-entity checks in which a suggestion lookup rejected
LookupRejected == {j \in DOMAIN pub.deployed : pub.pool.state[j] = "rejected"}

\* the fix-entity checks in which a production check rejected
PredicateRejected ==
  {j \in DOMAIN pub.deployed :
     /\ pub.task[j] # NoTask
     /\ "answers" \in DOMAIN pub.task[j]
     /\ \E x \in DOMAIN pub.task[j].answers : pub.task[j].answers[x] = null}

\* the fix entities whose save() rejected
SaveRejected == {f \in pub.saveCalled : fixEntities[f].status = DEPLOYED}

\* the call made no store call
NoStoreCall ==
  /\ pub.lookups = 0
  /\ pub.deployed = <<>>
  /\ pub.saveCalled = {}
  /\ pub.invoked = {}

\* what the call logs of a failed fix-entity lookup and of a failed save,
\* and what it does without context or lookup operations
PublisherAbsorbs ==
  /\ pub.outcome = "resolved"
  /\ pub.lookups = 1 /\ pub.deployed = <<>> /\ pub.log # <<>> =>
       PublisherLogged("warn", "Failed to publish deployed fix entities", 0)
  /\ \A f \in SaveRejected : PublisherLogged("debug", "Failed to save fix entity", f)
  /\ ~(pub.args.context /\ pub.args.apis) => NoStoreCall

C23_StageOrder ==
  [][/\ pub' # pub =>
          /\ wr.pc \in {"reconcile", "publish"}
          /\ runsReconcile(wr.args) => rec.pc = "done"
          /\ rec' = rec
          /\ wr.sync = NoSync
     /\ rec' # rec =>
          /\ pub = NoPublish
          /\ wr.pc \in {"idle", "reconcile"}
     /\ wr.pc # "idle" /\ wr'.sync # wr.sync =>
          /\ runsReconcile(wr.args) => rec.pc = "done"
          /\ runsPublish(wr.args) => pub.pc = "done"
          /\ rec' = rec /\ pub' = pub
     /\ wr.pc # "idle" /\ suggestions' # suggestions /\ rec' = rec =>
          wr'.sync # wr.sync]_vars

\* the three stages ran: the reconciler set a suggestion to FIXED, the
\* publish stage published a fix entity, the synchronizer created a suggestion
C23_Witness ==
  /\ WrapperDone
  /\ wr.sync # NoSync
  /\ rec.pc = "done" /\ rec.saved # {}
  /\ pub.pc = "done" /\ pub.saveCalled # {}
  /\ \E f \in DOMAIN fixEntities : fixEntities[f].status = PUBLISHED
  /\ wr.sync.created > 0

\* the audit called syncSuggestions itself
CalledDirect == call.op = "direct"

\* the store calls of a call of syncSuggestions other than getSuggestions
NoSyncStoreCall(res) ==
  res.bulk = {} /\ res.saveCalled = {} /\ res.submitted = <<>>

\* C24 (Single fetch): a call of syncSuggestionsWithPublishDetection with a
\* context calls getSuggestions exactly once, and the reconciler and the
\* synchronizer work on the suggestion objects of that fetch; syncSuggestions
\* given pre-fetched suggestions does not call getSuggestions; without
\* context neither function makes a store call.
C24_SingleFetch ==
  /\ wr.pc # "idle" /\ wr.args.context =>
       /\ wr.fetches = 1
       /\ rec.pc # "idle" =>
            /\ Len(rec.pre) = Len(entities)
            /\ \A i \in DOMAIN entities :
                 entities[i] = rec.pre[i] \/ i \in rec.statusSet
       /\ wr.sync # NoSync /\ wr.sync.error # GetError =>
            wr.sync.bulk =
              existingOutdatedSuggestions(entities, newDataKeys(wr.args.newData),
                                          wr.args.scrapedUrlsSet)
  /\ wr.pc # "idle" /\ ~wr.args.context =>
       /\ wr.fetches = 0
       /\ wr.sync = NoSync
       /\ rec = NoReconcile /\ pub = NoPublish
       /\ entities = <<>>
  /\ CalledDirect /\ call.context /\ call.prefetched =>
       /\ call.fetches = 0
       /\ call.res.error # GetError
  /\ CalledDirect /\ ~call.context =>
       /\ call.fetches = 0
       /\ NoSyncStoreCall(call.res)
       /\ suggestions = call.pre

\* the reconciler set a suggestion to FIXED in memory and its save()
\* rejected: the synchronizer, working on the objects of the one fetch, did
\* not outdate the suggestion, which is still NEW in the store
C24_Witness ==
  /\ WrapperDone
  /\ wr.fetches = 1
  /\ wr.sync # NoSync
  /\ wr.outcome = "resolved"
  /\ ~wr.args.scrapedUrlsSet.given
  /\ rec.pc = "done"
  /\ \E i \in rec.saveCalled \ rec.saved :
       /\ entities[i].status = FIXED
       /\ suggestions[i].status = STATUS_NEW
       /\ i \notin wr.sync.bulk

\* the one fetch of the suggestions rejected and ended the call
FetchRejected == WrapperDone /\ wr.sync = NoSync /\ wr.error = GetError

\* C25 (Optional stages): in a call of syncSuggestionsWithPublishDetection
\* that has fetched the suggestions, the reconciler is called if and only if
\* isIssueFixedWithAISuggestion and buildFixEntityPayload are both supplied,
\* the publish stage if and only if isIssueResolvedOnProduction is supplied
\* and the type is not author-only, and the synchronizer in every case; a
\* stage that is left out writes nothing, and the call rejects only with an
\* error of the synchronizer.
C25_OptionalStages ==
  wr.pc # "idle" /\ wr.args.context /\ ~FetchRejected =>
    /\ rec # NoReconcile <=>
         wr.args.isIssueFixedWithAISuggestion /\ wr.args.buildFixEntityPayload
    /\ wr.pc \in {"publish", "done"} =>
         (pub # NoPublish <=>
            /\ wr.args.isIssueResolvedOnProduction
            /\ wr.args.opportunityType \notin AUTHOR_ONLY_OPPORTUNITY_TYPES)
    /\ WrapperDone =>
         /\ wr.sync # NoSync
         /\ wr.outcome = wr.sync.outcome
         /\ wr.error = wr.sync.error
    /\ rec = NoReconcile /\ wr.sync = NoSync => entities = suggestions
    /\ rec = NoReconcile /\ pub = NoPublish =>
         \A f \in DOMAIN fixEntities : fixEntities[f].status = DEPLOYED

\* only isIssueResolvedOnProduction was supplied: the reconciler was not
\* called, the publish stage published a fix entity and the synchronizer
\* created a suggestion
C25_Witness ==
  /\ WrapperDone
  /\ wr.args.isIssueResolvedOnProduction
  /\ ~wr.args.isIssueFixedWithAISuggestion
  /\ wr.args.buildFixEntityPayload
  /\ rec = NoReconcile
  /\ pub.pc = "done" /\ pub.saveCalled # {}
  /\ wr.sync # NoSync
  /\ wr.sync.created > 0

\* C27 (Soft lifecycle): no step of syncSuggestions,
\* reconcileDisappearedSuggestions, publishDeployedFixEntities or
\* syncSuggestionsWithPublishDetection removes a suggestion: every stored
\* suggestion is still stored after the step, under the same id and with
\* the same key, and only its status, data or updatedBy may differ.
C27_SoftLifecycle ==
  [][/\ Len(suggestions') >= Len(suggestions)
     /\ \A i \in DOMAIN suggestions :
          buildKey(suggestions'[i].data) = buildKey(suggestions[i].data)]_vars

\* both suggestions of the opportunity disappeared from the findings: one
\* was set to FIXED by the reconciler and one outdated by the synchronizer;
\* both are still stored
C27_Witness ==
  /\ WrapperDone
  /\ wr.outcome = "resolved"
  /\ rec.pc = "done"
  /\ Len(rec.pre) = 2
  /\ rec.pre[1].status = STATUS_NEW /\ rec.pre[2].status = STATUS_NEW
  /\ Len(suggestions) = 2
  /\ suggestions[1].status = FIXED
  /\ suggestions[2].status = OUTDATED
  /\ buildKey(suggestions[1].data) \notin newDataKeys(wr.args.newData)
  /\ buildKey(suggestions[2].data) \notin newDataKeys(wr.args.newData)

\* the candidates whose predicate resolved true, in the order of the
\* candidates
FixedInOrder ==
  LET idx == SelectSeq(Indices(rec.candidates),
                       LAMBDA j : rec.answers[j] = "true")
  IN  [k \in DOMAIN idx |-> rec.candidates[idx[k]]]

\* what the finished reconciler did, told from the answers of the
\* predicate, of save() and of the builder alone
ReconcilerOutcomeByAnswers ==
  /\ rec.fixed = FixedInOrder
  /\ rec.saveCalled = Range(FixedInOrder)
  /\ \A id \in DOMAIN rec.pre :
       entities[id].status =
         (IF id \in Range(FixedInOrder) THEN FIXED ELSE rec.pre[id].status)
  /\ rec.args.hasBuilder =>
       [k \in DOMAIN rec.built |-> rec.built[k].suggestion]
         = SelectSeq(FixedInOrder, LAMBDA id : id \in rec.saved)
  /\ [k \in DOMAIN rec.fixEntityObjects |-> rec.fixEntityObjects[k].suggestions[1]]
       = SelectSeq(FixedInOrder,
                   LAMBDA id : \E b \in BuiltFor(id) :
                                 rec.built[b].returned = "payload")
  /\ \A c \in DOMAIN rec.addCalls : rec.addCalls[c] = rec.fixEntityObjects

\* the result of the check of the j-th deployed fix entity, told from what
\* its suggestion lookups and production checks answered
CheckResultByAnswers(j) ==
  IF pub.pool.state[j] = "rejected" THEN FailureMarker
  ELSE IF /\ "answers" \in DOMAIN pub.task[j]
          /\ \A x \in DOMAIN pub.task[j].answers : pub.task[j].answers[x] = "true"
       THEN "true"
       ELSE "false"

\* what the finished publisher did, told from those answers alone
PublisherOutcomeByAnswers ==
  /\ pub.results = [j \in DOMAIN pub.deployed |-> CheckResultByAnswers(j)]
  /\ pub.saveCalled =
       {pub.deployed[j] : j \in {x \in DOMAIN pub.deployed :
                                    CheckResultByAnswers(x) = "true"}}
  /\ \A j \in DOMAIN pub.deployed :
       CheckResultByAnswers(j) # "true" =>
         fixEntities[pub.deployed[j]].status = DEPLOYED

\* C29 (Completion-order independence): when a call of the reconciler or
\* of the publisher is over, the statuses of the suggestions and of the fix
\* entities and the payloads passed to addFixEntities are determined by
\* what the predicates (and the store operations) answered, in the order of
\* the candidates, whatever the order in which the checks completed.
C29_CompletionOrderIndependence ==
  /\ rec.pc = "done" /\ ~rec.unexpected => ReconcilerOutcomeByAnswers
  /\ pub.pc = "done" => PublisherOutcomeByAnswers

\* the check of the second candidate has completed while the check of the
\* first is still in flight
C29_Witness ==
  /\ rec.pc = "checking"
  /\ Len(rec.candidates) = 2
  /\ rec.candidates[1] \in rec.invoked
  /\ rec.answers[1] = "none"
  /\ rec.answers[2] = "true"

(***************************************************************************)
(* Properties of overlapping calls of syncSuggestions.                     *)
(***************************************************************************)
Overlapping == calls.pc = "overlap"

\* two stored suggestions of the opportunity have the same key
DuplicateKey ==
  \E i, j \in DOMAIN suggestions :
    i < j /\ buildKey(suggestions[i].data) = buildKey(suggestions[j].data)

\* a call wrote on a read the other call had made stale
ActedOnStaleRead ==
  \E p \in Invocations : calls.of[p].stale \/ calls.of[p].overwrote

\* C30 (no locking across calls): when no call of syncSuggestions starts
\* while another call for the same opportunity is running, no call writes
\* on a stale read and no key is stored twice; overlapping calls reach such
\* a state.
C30_SerializedCallsDoNotRace ==
  Overlapping /\ calls.serialized => ~DuplicateKey /\ ~ActedOnStaleRead

\* overlapping calls: both created a suggestion for the same new key, and
\* one saved over the status the other had just written
C30_Witness ==
  /\ Overlapping
  /\ ~calls.serialized
  /\ \A p \in Invocations : calls.of[p].pc = "done"
  /\ DuplicateKey
  /\ \E p \in Invocations : calls.of[p].overwrote

(***************************************************************************)
(* Further properties of syncSuggestions.                                  *)
(***************************************************************************)
\* the call came to the update of the matched suggestions
UpdateStepReached ==
  Called /\ call.res.error \notin {GetError, BulkError}

\* the last finding of the call with the key of suggestion i
LastFound(i) ==
  LET js == {j \in DOMAIN call.in.newData :
               ToString(call.in.newData[j].key) = KeyOf(call.pre[i])}
  IN  call.in.newData[CHOOSE j \in js : \A k \in js : k <= j]

\* the fields of n, and the fields of e that n lacks
Merged(e, n) ==
  [f \in DOMAIN e \cup DOMAIN n |-> IF f \in DOMAIN n THEN n[f] ELSE e[f]]

\* what the merge policy of the call makes of the data e and the finding n
MergedByPolicy(e, n) ==
  CASE cfg.mergeData = "keepSame" -> e
    [] cfg.mergeData = "keepLatest" -> n
    [] OTHER -> Merged(e, n)

\* the number of save() calls the call made on suggestion i
SaveCount(i) ==
  Cardinality({x \in DOMAIN call.res.saves : call.res.saves[x] = i})

\* C31 (Update matched): in a call of syncSuggestions that comes to its
\* update step, save() is called exactly once on every existing suggestion
\* whose key is among the findings, whatever its status, and on no other;
\* the saved suggestion holds the data merged from its data and the last
\* finding with its key, the status mergeStatusFunction returned, or its
\* own status when that is null, and updatedBy 'system'.
C31_UpdateMatched ==
  UpdateStepReached =>
    \A i \in DOMAIN call.pre :
      /\ SaveCount(i) = (IF Found(i) THEN 1 ELSE 0)
      /\ Found(i) /\ i \notin call.in.saveFails =>
           LET newStatus ==
                 defaultMergeStatusFunction(call.pre[i].status,
                                            cfg.requiresValidation)
           IN  /\ suggestions[i].data
                    = MergedByPolicy(call.pre[i].data, LastFound(i))
               /\ suggestions[i].status
                    = (IF newStatus # null THEN newStatus
                       ELSE call.pre[i].status)
               /\ suggestions[i].updatedBy = "system"

\* a REJECTED suggestion was matched by two findings with its key: it was
\* saved once with the title of the last one, and is REJECTED
C31_Witness ==
  /\ Called
  /\ call.in.newData \in RepeatedBatches
  /\ cfg.mergeData = "default"
  /\ \E i \in DOMAIN call.pre :
       /\ call.pre[i].status = REJECTED
       /\ call.pre[i].updatedBy = "user"
       /\ Found(i)
       /\ SaveCount(i) = 1
       /\ suggestions[i].data.title = "new title"
       /\ suggestions[i].status = REJECTED
       /\ suggestions[i].updatedBy = "system"

(***************************************************************************)
(* Further properties of publishDeployedFixEntities.                       *)
(***************************************************************************)
\* the fix-entity checks that resolved with allResolved
ResolvedChecks == {j \in DOMAIN pub.results : pub.results[j] = "true"}

\* the number of lines the call logged at that level with that message
PublisherLogCount(level, msg) ==
  Cardinality({l \in DOMAIN pub.log :
                 pub.log[l].level = level /\ pub.log[l].msg = msg})

MergeApplied == call.op = "merge"

\* C32 (Data merge policies): the default merge returns every field of the
\* new data and the fields of the existing data the new data lacks, the
\* keep-latest merge exactly the fields of the new data, the keep-same merge
\* exactly the fields of the existing data; each returns a new object, and
\* merging the same new data into the returned data returns the same data.
C32_MergePolicies ==
  MergeApplied =>
    LET e == call.existingData.data
        n == call.newData.data
        r == call.merged.data
    IN  /\ call.name = "default" =>
             /\ DOMAIN r = DOMAIN e \cup DOMAIN n
             /\ \A f \in DOMAIN n : r[f] = n[f]
             /\ \A f \in DOMAIN e \ DOMAIN n : r[f] = e[f]
        /\ call.name = "keepLatest" =>
             /\ DOMAIN r = DOMAIN n
             /\ \A f \in DOMAIN n : r[f] = n[f]
        /\ call.name = "keepSame" =>
             /\ DOMAIN r = DOMAIN e
             /\ \A f \in DOMAIN e : r[f] = e[f]
        /\ call.merged.ref \notin {call.existingData.ref, call.newData.ref}
        /\ DOMAIN call.again.data = DOMAIN r
        /\ \A f \in DOMAIN r : call.again.data[f] = r[f]

\* the default merge of two payloads that disagree on one field and have
\* each a field of their own
C32_Witness ==
  /\ MergeApplied
  /\ call.name = "default"
  /\ DOMAIN call.existingData.data = {"key", "url"}
  /\ DOMAIN call.newData.data = {"key", "title"}
  /\ call.existingData.data["key"] # call.newData.data["key"]
  /\ DOMAIN call.merged.data = MergeFields
  /\ call.merged.data["key"] = call.newData.data["key"]

\* the production checks that were started and have not settled
ProductionChecksInFlight ==
  {c \in pub.invoked : pub.task[c[1]].answers[c[2]] = "none"}

\* C34 (Total verification concurrency in the publish stage), as claimed:
\* at every instant of a call of publishDeployedFixEntities at most 5
\* invocations of isIssueResolvedOnProduction are started and not settled.
C34_AtMostFiveProductionChecksInFlight ==
  Publishing => Cardinality(ProductionChecksInFlight) <= MAX_CONCURRENT_CHECKS

\* C35 (No duplicate keys): a call of syncSuggestions with a batch of unique
\* keys, made on a store whose suggestions have pairwise distinct keys,
\* leaves a store whose suggestions have pairwise distinct keys, whatever
\* failed in the call or in the calls before it; so it is after every
\* sequence of such calls.
C35_NoDuplicateKeys ==
  [][/\ UniqueStoredKeys(suggestions)
     /\ call'.op = "syncSuggestions"
     /\ UniqueKeys(call'.in.newData)
     => UniqueStoredKeys(suggestions')]_vars

\* the first call of a run created one of two new findings and failed on
\* the other, the second call created the other: two suggestions, two keys
C35_Witness ==
  /\ Called
  /\ call.again
  /\ call.prev.outcome = "resolved"
  /\ call.prev.failed > 0
  /\ call.res.created > 0
  /\ call.res.failed = 0
  /\ UniqueKeys(call.in.newData)
  /\ Len(suggestions) > Len(call.first) + 1
  /\ UniqueStoredKeys(suggestions)

\* suggestion i of the store before the call is one the call may outdate:
\* its key is not among the findings, it is NEW, not deployed and, when a
\* scraped set is given, its url is in the set
Eligible(i) ==
  /\ ~Found(i)
  /\ call.pre[i].status = STATUS_NEW
  /\ ~DeployedData(call.pre[i].data)
  /\ call.in.scrapedUrlsSet.given => UrlScraped(call.pre[i].data)

\* C36 (Frame of syncSuggestions): an existing suggestion that is neither
\* matched by a finding nor eligible for outdating is stored after the call
\* as it was before it, and is neither saved nor passed to
\* bulkUpdateStatus; bulkUpdateStatus is called at most once, and never
\* with an empty list.
C36_Frame ==
  Called =>
    /\ \A i \in DOMAIN call.pre :
         ~Found(i) /\ ~Eligible(i) =>
           /\ suggestions[i] = call.pre[i]
           /\ SaveCount(i) = 0
           /\ i \notin call.res.bulk
    /\ call.res.bulkCalls <= 1
    /\ call.res.bulkCalls = 1 => call.res.bulk # {}
    /\ call.res.bulkCalls = 0 => call.res.bulk = {}

\* one call outdated a suggestion and left alone a disappeared NEW one of
\* a page that was not scraped
C36_Witness ==
  /\ Called
  /\ call.in.scrapedUrlsSet.given
  /\ call.res.bulkCalls = 1
  /\ \E i, j \in DOMAIN call.pre :
       /\ i \in call.res.bulk
       /\ ~Found(j)
       /\ call.pre[j].status = STATUS_NEW
       /\ ~UrlScraped(call.pre[j].data)
       /\ suggestions[j] = call.pre[j]

(***************************************************************************)
(* Further properties of syncSuggestionsWithPublishDetection.              *)
(***************************************************************************)
\* the synchronizer of the wrapper call ran
Synchronized == WrapperDone /\ wr.sync # NoSync

\* C37 (FIXED is kept within the call): from the moment the reconciler has
\* set a suggestion to FIXED and its save() has resolved, the stored status
\* of the suggestion is FIXED, through the publish stage and the
\* synchronizer of the same call, and the synchronizer does not pass it to
\* bulkUpdateStatus.
C37_FixedIsNotOutdated ==
  wr.pc # "idle" /\ rec.pc # "idle" =>
    \A id \in rec.saved :
      /\ suggestions[id].status = FIXED
      /\ Synchronized => id \notin wr.sync.bulk

\* of two disappeared NEW suggestions the reconciler set one to FIXED and
\* the synchronizer of the same call outdated the other
C37_Witness ==
  /\ Synchronized
  /\ rec.pc = "done"
  /\ wr.sync.bulkCalls = 1
  /\ \E id \in rec.saved, other \in wr.sync.bulk :
       /\ rec.pre[id].status = STATUS_NEW
       /\ suggestions[id].status = FIXED
       /\ suggestions[other].status = OUTDATED

\* the reconciler's save() of the suggestion rejected
FixedNotPersisted == rec.saveCalled \ rec.saved

\* C38 (A failed FIXED persist does not strand a suggestion), as claimed:
\* when the reconciler's save() of a disappeared NEW suggestion rejected
\* and the synchronizer of the same call resolved, the suggestion, when it
\* is not deployed and its page was scraped, is stored with the status set
\* for outdated suggestions.
C38_FailedPersistIsOutdated ==
  Synchronized /\ rec.pc = "done" /\ wr.outcome = "resolved" =>
    \A id \in FixedNotPersisted :
      /\ ~DeployedData(rec.pre[id].data)
      /\ wr.args.scrapedUrlsSet.given =>
           /\ "url" \in DOMAIN rec.pre[id].data
           /\ rec.pre[id].data.url \in wr.args.scrapedUrlsSet.urls
      => suggestions[id].status = cfg.statusToSetForOutdated

\* suggestion i, fetched at the start of the wrapper call, disappeared from
\* the findings and its page was not scraped again
NotRechecked(i) ==
  /\ wr.args.scrapedUrlsSet.given
  /\ buildKey(rec.pre[i].data) \notin newDataKeys(wr.args.newData)
  /\ \/ "url" \notin DOMAIN rec.pre[i].data
     \/ rec.pre[i].data.url \notin wr.args.scrapedUrlsSet.urls

\* C39 (Not-re-checked suggestions are not status-changed), as claimed: in
\* a call of syncSuggestionsWithPublishDetection with a scrapedUrlsSet, a
\* disappeared suggestion whose url is not in the set has, in every stage
\* of the call, the stored status it had when the call fetched it.
C39_NotRecheckedKeepsStatus ==
  wr.pc # "idle" /\ rec.pc # "idle" =>
    \A i \in DOMAIN rec.pre :
      NotRechecked(i) => suggestions[i].status = rec.pre[i].status

\* no check of the reconciler and no check of the publish stage was started
\* twice
StartedAtMostOnce ==
  /\ rec.pc # "idle" => \A j \in DOMAIN rec.pool.starts : rec.pool.starts[j] <= 1
  /\ pub.pc # "idle" =>
       /\ \A j \in DOMAIN pub.pool.starts : pub.pool.starts[j] <= 1
       /\ \A j \in DOMAIN pub.task :
            "pool" \in DOMAIN pub.task[j] =>
              \A x \in DOMAIN pub.task[j].pool.starts :
                pub.task[j].pool.starts[x] <= 1

\* C40 (Termination): when every callback and every store operation
\* eventually settles, every call of syncSuggestionsWithPublishDetection
\* that was made eventually settles, and no reconcile check and no
\* production check is started twice.
C40_Termination ==
  /\ []StartedAtMostOnce
  /\ (wr.pc # "idle") ~> WrapperDone

\* a call settled in which the reconciler checked two candidates and the
\* publish stage checked a linked suggestion on production, each once
C40_Witness ==
  /\ Synchronized
  /\ rec.pc = "done"
  /\ Len(rec.candidates) = 2
  /\ \A j \in DOMAIN rec.candidates : rec.pool.starts[j] = 1
  /\ pub.pc = "done"
  /\ pub.invoked # {}
  /\ \A c \in pub.invoked : pub.task[c[1]].pool.starts[c[2]] = 1

====
